---- MODULE Spec2Model ----
(***************************************************************************)
(* A state-machine model of grids-jack: the SamplePlayer voice pool        *)
(* (sample_player.h/.cpp) and the PatternGeneratorWrapper pulse clock,     *)
(* trigger dispatcher and humanize scheduler                               *)
(* (pattern_generator_wrapper.h/.cpp).                                     *)
(*                                                                         *)
(* Numbers.  Floats are modelled by exact integers in fixed units:         *)
(*   velocity and gain in tenths (1.0 = 10, 0.1 = 1),                      *)
(*   pan in thousandths (-1.0 = -1000), pan gains in thousandths,          *)
(*   sample values as integers.                                            *)
(* The pool capacity kMaxVoices (256 in the source) and the pending table  *)
(* capacity kMaxPendingTriggers (64 in the source) are scaled down; they   *)
(* are bounds of the model.                                                *)
(***************************************************************************)
EXTENDS Integers, Sequences, FiniteSets, TLC

VARIABLES
    player,     \* the SamplePlayer object (its private fields)
    out,        \* the caller's buffers as the last call left them
    last_call,  \* the last public call made and its arguments
    gen,        \* the PatternGeneratorWrapper object (its private fields)
    grids,      \* the density-map provider the wrapper drives
    hist,       \* history of the real-time path, for stating the properties
    threads     \* where the audio thread and the main thread are inside
                \*   DetectPatternChange and PrintPendingPattern, their locals

vars == <<player, out, last_call, gen, grids, hist, threads>>

-----------------------------------------------------------------------------
(* Bounds of the model *)

\* Capacity of the voice pool (sample_player.h:27 has 256).
kMaxVoices == 2
\* Cap on total_triggers_ (a uint64 counter in the source).
MaxTriggers == 6
\* The same cap where Process calls interleave with the triggers.
MaxMixTriggers == 4
\* Largest num_frames handed to SamplePlayer::Process / ProcessStereo.
MaxFrames == 2

-----------------------------------------------------------------------------
(* SampleBank: a read-only collaborator after initialisation *)

NULL == "nullptr"

\* std::map<uint8_t, Sample> samples_ : note 60 holds two frames, 62 one
\* frame, 64 a sample with no frames; every other note is absent.
BankNotes == {60, 62, 64}

\* Sample::data of a stored note.
SampleDataOf(midi_note) ==
    CASE midi_note = 60 -> <<1, 2>>
      [] midi_note = 62 -> <<3>>
      [] OTHER -> <<>>

\* SampleBank::GetSample: the pointer it returns, as a sequence holding the
\* Sample, or the empty sequence for nullptr (the note is not in the map).
GetSample(midi_note) ==
    IF midi_note \in BankNotes
    THEN <<[data |-> SampleDataOf(midi_note), length |-> Len(SampleDataOf(midi_note))]>>
    ELSE <<>>

-----------------------------------------------------------------------------
(* Voice *)

\* Voice::Reset (also the state the constructor leaves).
ResetVoice ==
    [sample_data |-> <<>>, sample_length |-> 0, position |-> 0, gain |-> 10,
     pan_left |-> 707, pan_right |-> 707, active |-> FALSE]

\* Voice::Init
InitVoice(data, length, velocity, left, right) ==
    [sample_data |-> data, sample_length |-> length, position |-> 0,
     gain |-> velocity, pan_left |-> left, pan_right |-> right,
     active |-> TRUE]

\* Voice::IsFinished
IsFinished(voice) == voice.position >= voice.sample_length

Slots == 0 .. (kMaxVoices - 1)

-----------------------------------------------------------------------------
(* SamplePlayer *)

\* The state the SamplePlayer constructor leaves.  last_alloc is history: for
\* each slot the ordinal of the last successful trigger that took it.
NewPlayer ==
    [voice_pool |-> [s \in Slots |-> ResetVoice],
     next_voice_index |-> 0,
     sample_bank |-> NULL,
     active_voice_count |-> 0,
     total_triggers |-> 0,
     last_alloc |-> [s \in Slots |-> 0]]

\* SamplePlayer::Init(bank, sample_rate)
PlayerInit(p, bank) ==
    [voice_pool |-> [s \in Slots |-> ResetVoice],
     next_voice_index |-> 0,
     sample_bank |-> bank,
     active_voice_count |-> 0,
     total_triggers |-> 0,
     last_alloc |-> [s \in Slots |-> 0]]

\* velocity clamped to [0.0, 1.0] (tenths)
ClampVelocity(velocity) ==
    IF velocity < 0 THEN 0 ELSE IF velocity > 10 THEN 10 ELSE velocity

\* cosf(theta) and sinf(theta), theta = (pan + 1) * pi / 4, in thousandths,
\* tabulated for the pans the model uses.
PanLeftGain(pan) ==
    CASE pan = -1000 -> 1000
      [] pan = -500 -> 924
      [] pan = 0 -> 707
      [] pan = 500 -> 383
      [] pan = 1000 -> 0

PanRightGain(pan) ==
    CASE pan = -1000 -> 0
      [] pan = -500 -> 383
      [] pan = 0 -> 707
      [] pan = 500 -> 924
      [] pan = 1000 -> 1000

\* A trigger that reaches the slot write: bank attached, note found, non-empty.
TriggerAccepted(p, midi_note) ==
    /\ p.sample_bank # NULL
    /\ GetSample(midi_note) # <<>>
    /\ GetSample(midi_note)[1].data # <<>>

\* A Trigger that counts the voice whether or not the slot was active.
TriggerCountsAlways(p, midi_note, velocity, pan) ==
    IF ~TriggerAccepted(p, midi_note) THEN p
    ELSE LET i == p.next_voice_index
             sample == GetSample(midi_note)[1]
         IN [p EXCEPT
               !.voice_pool[i] = InitVoice(sample.data, sample.length,
                                           ClampVelocity(velocity),
                                           PanLeftGain(pan), PanRightGain(pan)),
               !.active_voice_count = @ + 1,
               !.total_triggers = @ + 1,
               !.last_alloc[i] = p.total_triggers + 1,
               !.next_voice_index = (i + 1) % kMaxVoices]

\* A Trigger that counts the call before it looks the note up.
TriggerCountsFirst(p, midi_note, velocity, pan) ==
    IF ~TriggerAccepted(p, midi_note)
    THEN [p EXCEPT !.total_triggers = @ + 1]
    ELSE LET i == p.next_voice_index
             sample == GetSample(midi_note)[1]
             was_active == p.voice_pool[i].active
         IN [p EXCEPT
               !.voice_pool[i] = InitVoice(sample.data, sample.length,
                                           ClampVelocity(velocity),
                                           PanLeftGain(pan), PanRightGain(pan)),
               !.active_voice_count = IF was_active THEN @ ELSE @ + 1,
               !.total_triggers = @ + 1,
               !.last_alloc[i] = p.total_triggers + 1,
               !.next_voice_index = (i + 1) % kMaxVoices]

\* A Trigger that prefers the lowest inactive slot and steals the slot at the
\* cursor only when every slot is active.
TriggerFirstFree(p, midi_note, velocity, pan) ==
    IF ~TriggerAccepted(p, midi_note) THEN p
    ELSE LET free == {s \in Slots : ~p.voice_pool[s].active}
             i == IF free = {} THEN p.next_voice_index
                  ELSE CHOOSE s \in free : \A t \in free : s <= t
             sample == GetSample(midi_note)[1]
             was_active == p.voice_pool[i].active
         IN [p EXCEPT
               !.voice_pool[i] = InitVoice(sample.data, sample.length,
                                           ClampVelocity(velocity),
                                           PanLeftGain(pan), PanRightGain(pan)),
               !.active_voice_count = IF was_active THEN @ ELSE @ + 1,
               !.total_triggers = @ + 1,
               !.last_alloc[i] = p.total_triggers + 1,
               !.next_voice_index = (i + 1) % kMaxVoices]

\* A Trigger that leaves the cursor where it is when it steals an active slot.
TriggerStuckCursor(p, midi_note, velocity, pan) ==
    IF ~TriggerAccepted(p, midi_note) THEN p
    ELSE LET i == p.next_voice_index
             sample == GetSample(midi_note)[1]
             was_active == p.voice_pool[i].active
         IN [p EXCEPT
               !.voice_pool[i] = InitVoice(sample.data, sample.length,
                                           ClampVelocity(velocity),
                                           PanLeftGain(pan), PanRightGain(pan)),
               !.active_voice_count = IF was_active THEN @ ELSE @ + 1,
               !.total_triggers = @ + 1,
               !.last_alloc[i] = p.total_triggers + 1,
               !.next_voice_index = IF was_active THEN i ELSE (i + 1) % kMaxVoices]

\* SamplePlayer::Trigger(midi_note, velocity, pan)
PlayerTrigger(p, midi_note, velocity, pan) ==
    IF ~TriggerAccepted(p, midi_note) THEN p
    ELSE LET i == p.next_voice_index
             sample == GetSample(midi_note)[1]
             was_active == p.voice_pool[i].active
         IN [p EXCEPT
               !.voice_pool[i] = InitVoice(sample.data, sample.length,
                                           ClampVelocity(velocity),
                                           PanLeftGain(pan), PanRightGain(pan)),
               !.active_voice_count = IF was_active THEN @ ELSE @ + 1,
               !.total_triggers = @ + 1,
               !.last_alloc[i] = p.total_triggers + 1,
               !.next_voice_index = (i + 1) % kMaxVoices]

-----------------------------------------------------------------------------
(* SamplePlayer::Process and ProcessStereo *)

\* A caller's buffer: a null pointer, or MaxFrames floats.
NullBuffer == [null |-> TRUE, data |-> <<>>]
Buffer(fill) == [null |-> FALSE, data |-> [i \in 1 .. MaxFrames |-> fill]]

\* A frames_to_render that stops one frame short of the sample's end.
FramesToRenderShort(voice, num_frames) ==
    LET frames_remaining == voice.sample_length - voice.position
    IN IF num_frames >= frames_remaining THEN frames_remaining - 1 ELSE num_frames

\* frames_to_render of one voice for a call of num_frames
FramesToRender(voice, num_frames) ==
    LET frames_remaining == voice.sample_length - voice.position
    IN IF num_frames > frames_remaining THEN frames_remaining ELSE num_frames

\* A voice the mixing loop renders: active and not finished on entry.
Rendered(voice) == voice.active /\ ~IsFinished(voice)

\* What one voice adds to output[i - 1] (i counts from 1), before pan.
VoiceSample(voice, i, num_frames) ==
    IF Rendered(voice) /\ i <= FramesToRender(voice, num_frames)
    THEN voice.sample_data[voice.position + i] * voice.gain
    ELSE 0

RECURSIVE MixMono(_, _, _, _)
MixMono(pool, i, num_frames, s) ==
    IF s = kMaxVoices THEN 0
    ELSE VoiceSample(pool[s], i, num_frames) + MixMono(pool, i, num_frames, s + 1)

RECURSIVE MixLeft(_, _, _, _)
MixLeft(pool, i, num_frames, s) ==
    IF s = kMaxVoices THEN 0
    ELSE VoiceSample(pool[s], i, num_frames) * pool[s].pan_left
         + MixLeft(pool, i, num_frames, s + 1)

RECURSIVE MixRight(_, _, _, _)
MixRight(pool, i, num_frames, s) ==
    IF s = kMaxVoices THEN 0
    ELSE VoiceSample(pool[s], i, num_frames) * pool[s].pan_right
         + MixRight(pool, i, num_frames, s + 1)

\* A mixing loop that leaves a voice as it is when it reaches its end.
ProcessVoiceNoReset(voice, num_frames) ==
    IF ~voice.active THEN voice
    ELSE IF IsFinished(voice) THEN ResetVoice
    ELSE [voice EXCEPT !.position = @ + FramesToRender(voice, num_frames)]

\* The body of the mixing loop for one voice: what it leaves in the slot.
ProcessVoice(voice, num_frames) ==
    IF ~voice.active THEN voice
    ELSE IF IsFinished(voice) THEN ResetVoice
    ELSE LET advanced == [voice EXCEPT !.position = @ + FramesToRender(voice, num_frames)]
         IN IF IsFinished(advanced) THEN ResetVoice ELSE advanced

\* The pool and the statistics after Process.
MixedPlayer(p, num_frames) ==
    [p EXCEPT
       !.voice_pool = [s \in Slots |-> ProcessVoice(p.voice_pool[s], num_frames)],
       !.active_voice_count = Cardinality({s \in Slots : Rendered(p.voice_pool[s])})]

\* ProcessStereo's own mixing loop, slot by slot from slot s on: count is
\* active_voice_count_ as the loop has it on reaching the slot.
RECURSIVE StereoLoop(_, _, _, _)
StereoLoop(p, num_frames, s, count) ==
    IF s = kMaxVoices THEN [p EXCEPT !.active_voice_count = count]
    ELSE LET voice == p.voice_pool[s]
         IN IF ~voice.active THEN StereoLoop(p, num_frames, s + 1, count)
            ELSE IF voice.position >= voice.sample_length
            THEN StereoLoop([p EXCEPT !.voice_pool[s] = ResetVoice],
                            num_frames, s + 1, count)
            ELSE LET frames_remaining == voice.sample_length - voice.position
                     frames_to_render == IF num_frames > frames_remaining
                                         THEN frames_remaining ELSE num_frames
                     position == voice.position + frames_to_render
                 IN StereoLoop([p EXCEPT !.voice_pool[s] =
                                   IF position >= voice.sample_length
                                   THEN ResetVoice
                                   ELSE [voice EXCEPT !.position = position]],
                               num_frames, s + 1, count + 1)

\* A ProcessStereo that goes on counting from the count it finds.
MixedPlayerStereoNoRecount(p, num_frames) ==
    StereoLoop(p, num_frames, 0, p.active_voice_count)

\* The pool and the statistics after ProcessStereo.
MixedPlayerStereo(p, num_frames) == StereoLoop(p, num_frames, 0, 0)

\* A Process that mixes into the buffer as it finds it, without clearing it.
ProcessNoClear(p, output, num_frames) ==
    IF output.null \/ num_frames = 0
    THEN [player |-> p, output |-> output]
    ELSE [player |-> MixedPlayer(p, num_frames),
          output |-> [output EXCEPT !.data =
                        [i \in 1 .. MaxFrames |->
                           IF i <= num_frames
                           THEN output.data[i] + MixMono(p.voice_pool, i, num_frames, 0)
                           ELSE output.data[i]]]]

\* SamplePlayer::Process(output, num_frames): the player and the buffer after.
PlayerProcess(p, output, num_frames) ==
    IF output.null \/ num_frames = 0
    THEN [player |-> p, output |-> output]
    ELSE [player |-> MixedPlayer(p, num_frames),
          output |-> [output EXCEPT !.data =
                        [i \in 1 .. MaxFrames |->
                           IF i <= num_frames
                           THEN 0 + MixMono(p.voice_pool, i, num_frames, 0)
                           ELSE output.data[i]]]]

\* SamplePlayer::ProcessStereo(left, right, num_frames)
PlayerProcessStereo(p, left, right, num_frames) ==
    IF left.null \/ right.null \/ num_frames = 0
    THEN [player |-> p, left |-> left, right |-> right]
    ELSE [player |-> MixedPlayerStereo(p, num_frames),
          left |-> [left EXCEPT !.data =
                      [i \in 1 .. MaxFrames |->
                         IF i <= num_frames
                         THEN 0 + MixLeft(p.voice_pool, i, num_frames, 0)
                         ELSE left.data[i]]],
          right |-> [right EXCEPT !.data =
                       [i \in 1 .. MaxFrames |->
                          IF i <= num_frames
                          THEN 0 + MixRight(p.voice_pool, i, num_frames, 0)
                          ELSE right.data[i]]]]

-----------------------------------------------------------------------------
(* 32-bit arithmetic of the humanize generator.  A uint32 is kept as two    *)
(* 16-bit halves <<hi, lo>> so that no intermediate value leaves the range  *)
(* the model checker's integers have.                                       *)

Half == 2 ^ 16

U32(hi, lo) == <<hi, lo>>

\* PatternGeneratorWrapper::HumanizeRand: state * 1664525 + 1013904223 mod 2^32
\* (1664525 = 25 * 2^16 + 26125, 1013904223 = 15470 * 2^16 + 62303).
HumanizeRand(state) ==
    LET hi == state[1]
        lo == state[2]
        low == lo * 26125
        sum == (low % Half) + 62303
    IN U32(((low \div Half) + lo * 25 + hi * 26125 + 15470 + (sum \div Half)) % Half,
           sum % Half)

\* (a + b) mod m and (2 * a) mod m for 0 <= a, b < m < 2^31
AddMod(a, b, m) == IF a >= m - b THEN a - (m - b) ELSE a + b

RECURSIVE TimesPow2Mod(_, _, _)
TimesPow2Mod(a, k, m) ==
    IF k = 0 THEN a ELSE TimesPow2Mod(AddMod(a, a, m), k - 1, m)

\* r mod m for a uint32 r = <<hi, lo>> and 1 <= m < 2^31
ModU32(r, m) == AddMod(TimesPow2Mod(r[1] % m, 16, m), r[2] % m, m)

\* static_cast<int32_t>(r): the two's-complement value of the 32 bits
ToInt32(r) == IF r[1] >= 32768 THEN (r[1] - Half) * Half + r[2] ELSE r[1] * Half + r[2]

\* r - m for uint32 halves with r >= m
SubU32(r, m) ==
    IF r[2] >= m[2] THEN U32(r[1] - m[1], r[2] - m[2])
    ELSE U32(r[1] - m[1] - 1, r[2] + Half - m[2])

LessU32(r, m) == r[1] < m[1] \/ (r[1] = m[1] /\ r[2] < m[2])

\* static_cast<int32_t>(HumanizeRand() % (2 * humanize_max_frames_ + 1)) for
\* the value r the generator returned and humanize_max_frames_ < 2^31: the
\* modulus is below 2^31 when max_frames < 2^30, and is a uint32 of 2^31 or
\* more otherwise, where one subtraction reduces r and the cast to int32
\* gives a negative number for a remainder of 2^31 or more.
HumanizeDelay(r, max_frames) ==
    IF max_frames < 1073741824
    THEN ModU32(r, 2 * max_frames + 1)
    ELSE LET m == U32(2 * (max_frames \div Half) + ((2 * (max_frames % Half) + 1) \div Half),
                      (2 * (max_frames % Half) + 1) % Half)
         IN ToInt32(IF LessU32(r, m) THEN r ELSE SubU32(r, m))

-----------------------------------------------------------------------------
(* The density-map provider (grids::PatternGenerator), an external          *)
(* collaborator: only what the wrapper reads and writes.                    *)

kNumParts == 3
DRUM_PART_COUNT == 3
kStepsPerPattern == 32
kPulsesPerStep == 3

Parts == 0 .. (DRUM_PART_COUNT - 1)

\* The provider before grids::PatternGenerator::Init.
NewGrids ==
    [x |-> 0, y |-> 0, randomness |-> 0, density |-> [i \in Parts |-> 0],
     step |-> 0, pulse |-> 0, state |-> 0]

\* grids::PatternGenerator::Init followed by the settings Init writes.
GridsInit ==
    [x |-> 128, y |-> 128, randomness |-> 0, density |-> [i \in Parts |-> 128],
     step |-> 0, pulse |-> 0, state |-> 0]

\* grids::PatternGenerator::TickClock(1): the pulse counter advances, a step
\* is taken every kPulsesPerStep pulses, and the trigger bits of the new
\* state are the provider's own choice (bits).
TickClock(d, bits) ==
    LET wrapped == d.pulse + 1 >= kPulsesPerStep
    IN [d EXCEPT !.pulse = IF wrapped THEN 0 ELSE d.pulse + 1,
                 !.step = IF wrapped THEN (d.step + 1) % kStepsPerPattern ELSE d.step,
                 !.state = bits]

\* grids::PatternGenerator::GetDrumMapLevel(step, inst, x, y): a stand-in for
\* the provider's lookup tables, with values in 0 .. 255.
GetDrumMapLevel(step, inst, x, y) == (step * 37 + inst * 91 + x + 2 * y) % 256

\* bit (1 << part) of a state byte
BitSet(state, part) == (state \div (2 ^ part)) % 2 = 1

-----------------------------------------------------------------------------
(* PatternGeneratorWrapper *)

kMaxPendingTriggers == 2

PendingSlots == 0 .. (kMaxPendingTriggers - 1)

\* The fields of a PendingTrigger the constructor leaves unset are never read
\* while active is false; they are shown as zero.
IdleTrigger ==
    [midi_note |-> 0, velocity |-> 0, pan |-> 0, delay_frames |-> 0, active |-> FALSE]

\* uint32_t bitmask 0xFFFFFFFF as the set of its bits
AllBits == 0 .. 31

\* PatternGeneratorWrapper::PatternGeneratorWrapper
NewGen ==
    [sample_player |-> NULL, sample_rate |-> 0, bpm |-> 120, lfo_enabled |-> FALSE,
     spread |-> 0, num_steps |-> 32, frames_since_last_tick |-> 0,
     frames_per_pulse |-> 0, sample_mappings |-> <<>>,
     prev_pattern_bits |-> [i \in Parts |-> {}],
     pending_pattern_bits |-> [i \in Parts |-> {}],
     pending_pattern_x |-> 0, pending_pattern_y |-> 0, pattern_changed |-> FALSE,
     humanize_amount |-> 0, humanize_max_frames |-> 0,
     pending_triggers |-> [i \in PendingSlots |-> IdleTrigger],
     humanize_rng_state |-> U32(0, 0)]

\* History kept beside the program state, for stating the properties.
NewHist ==
    [total_frames |-> 0,      \* frames consumed by Process in all
     frames_fed |-> 0,        \* frames consumed by Process since Init
     ticks |-> 0,             \* TickClock calls since Init
     dispatch_passes |-> 0,   \* ProcessTriggers calls since Init
     clock_touched |-> FALSE, \* SetTempo, or SetHumanize with jitter, since Init
     setup |-> "constructed", \* "init" after Init, "humanized" after one SetHumanize
                              \*   with jitter right after it, "other" after more
     queued_g |-> [i \in PendingSlots |-> 0],  \* per slot, ticks * frames_per_pulse_ of
                              \*   the pulse that queued its trigger
     due_at |-> [i \in PendingSlots |-> -1],  \* per slot, the frame of the queueing
                              \*   plus the delay stored, if that is in [0, 2M]
     lateness |-> {},         \* frame of the Trigger call minus due_at, of every
                              \*   trigger played from a slot
     jitter |-> {},           \* frame of the Trigger call minus ticks * frames_per_pulse_
                              \*   of its pulse, of every trigger of the scheduler while
                              \*   the setup is "humanized"
     part_pulses |-> [i \in Parts |-> 0],  \* pulses with the part's bit set, since the assignment
     last_velocity |-> <<>>,  \* per mapping, the velocity of its last dispatch
     dispatched |-> 0,        \* mapping firings in ProcessTriggers
     direct |-> 0,            \* of those, passed straight to SamplePlayer::Trigger
     handed |-> 0,            \* QueueHumanizedTrigger calls
     fired |-> 0,             \* Trigger calls made by ProcessPendingTriggers
     fallback |-> 0,          \* Trigger calls made by a full QueueHumanizedTrigger
     stored_delay |-> 0,      \* the delay_frames last stored and the
     stored_max |-> 0,        \*   humanize_max_frames_ it was drawn for
     call_log |-> <<>>,       \* the steps of the pulses of the last Process call
     read_steps |-> {},       \* the provider's step at each of its state() reads
     state_steps |-> {},      \* the provider's step at the return of each TickClock,
                              \*   the step its state() was set for
     hung |-> FALSE,          \* Process entered a loop that does not end
     assigned |->             \* the arguments of the last AssignSamplesToParts
       [midi_notes |-> <<>>,  \*   made with a note list, and whether it returned
        num_parts |-> 0, num_velocity_steps |-> 0, returned |-> TRUE]]

\* frames_per_pulse_ = uint32(float(sample_rate_) / (bpm_ * 24 / 60)), for
\* bpm > 0: floor(5 * sample_rate / (2 * bpm)), computed without overflow.
FramesPerPulse(sample_rate, bpm) ==
    (sample_rate \div (2 * bpm)) * 5 + ((sample_rate % (2 * bpm)) * 5) \div (2 * bpm)

\* PatternGeneratorWrapper::UpdateFramesPerPulse
UpdateFramesPerPulse(g) ==
    [g EXCEPT !.frames_per_pulse = FramesPerPulse(g.sample_rate, g.bpm)]

\* PatternGeneratorWrapper::Init(sample_player, sample_rate, bpm); seed is the
\* value rand() gives for the humanize generator.
GenInit(g, sample_rate, bpm, seed) ==
    UpdateFramesPerPulse(
      [g EXCEPT !.sample_player = "player",
                !.sample_rate = sample_rate,
                !.bpm = bpm,
                !.frames_since_last_tick = 0,
                !.prev_pattern_bits = [i \in Parts |-> AllBits],
                !.pending_pattern_bits = [i \in Parts |-> {}],
                !.pending_pattern_x = 0,
                !.pending_pattern_y = 0,
                !.pattern_changed = FALSE,
                !.humanize_rng_state = seed])

\* 2 * pi / (period * sample_rate_): a small positive frequency, kept as one
\* eighth of a turn per frame, and +infinity (kept as -1) when sample_rate_
\* is 0.
Infinity == -1
LfoFrequency(sample_rate) == IF sample_rate = 0 THEN Infinity ELSE 1

\* One SampleMapping as AssignSamplesToParts builds it.
Mapping(midi_note, drum_part, velocity_pattern, lfo_phase) ==
    [midi_note |-> midi_note, drum_part |-> drum_part, x |-> 128, y |-> 128,
     velocity_pattern |-> velocity_pattern, velocity_step |-> 0, pan |-> 0,
     lfo_x_phase |-> lfo_phase, lfo_y_phase |-> lfo_phase,
     lfo_x_freq |-> 1, lfo_y_freq |-> 1]

\* The shuffle of AssignSamplesToParts from position i (counted from 0) down
\* to 1: shuffled[i] is swapped with shuffled[rand() % (i + 1)]; rands[i]
\* is the value rand() returned for position i.
RECURSIVE ShuffleFrom(_, _, _)
ShuffleFrom(shuffled, i, rands) ==
    IF i <= 0 THEN shuffled
    ELSE LET j == rands[i] % (i + 1)
             swapped == [shuffled EXCEPT ![i + 1] = shuffled[j + 1],
                                         ![j + 1] = shuffled[i + 1]]
         IN ShuffleFrom(swapped, i - 1, rands)

\* The mapping list AssignSamplesToParts builds from a note list that is not
\* empty.  draws holds what rand() returned: rands for the shuffle, parts
\* for the drum parts, fill for the velocity steps (step k gets
\* (fill + k) % 2), phase for the LFO phases.
BuildMappings(midi_notes, num_parts, num_velocity_steps, draws) ==
    LET num_samples == IF Len(midi_notes) < num_parts THEN Len(midi_notes)
                       ELSE num_parts
        shuffled == ShuffleFrom(midi_notes, Len(midi_notes) - 1, draws.rands)
    IN [i \in 1 .. num_samples |->
          Mapping(shuffled[i],
                  draws.parts[i] % DRUM_PART_COUNT,
                  [step \in 1 .. num_velocity_steps |-> (draws.fill + step) % 2],
                  draws.phase)]

\* PatternGeneratorWrapper::AssignSamplesToParts: mappings is the list the
\* random choices produced (notes, parts, velocity patterns of
\* num_velocity_steps entries).
AssignSamplesToParts(g, mappings, num_velocity_steps) ==
    [g EXCEPT !.sample_mappings =
                 [j \in 1 .. Len(mappings) |->
                    [mappings[j] EXCEPT !.lfo_x_freq = LfoFrequency(g.sample_rate),
                                        !.lfo_y_freq = LfoFrequency(g.sample_rate)]],
              !.num_steps = IF num_velocity_steps > 32 THEN 32
                            ELSE IF num_velocity_steps < 1 THEN 1
                            ELSE num_velocity_steps]

\* A SetTempo that restarts the pulse at the call.
SetTempoSnapsPhase(g, bpm) ==
    UpdateFramesPerPulse([g EXCEPT !.bpm = bpm, !.frames_since_last_tick = 0])

\* PatternGeneratorWrapper::SetTempo
SetTempo(g, bpm) == UpdateFramesPerPulse([g EXCEPT !.bpm = bpm])

\* uint32(amount * 1.5f * frames_per_pulse_), amount in tenths:
\* floor(3 * amount * frames_per_pulse / 20), computed without overflow.
MaxJitterFrames(amount, frames_per_pulse) ==
    (frames_per_pulse \div 20) * (3 * amount)
    + ((frames_per_pulse % 20) * (3 * amount)) \div 20

\* PatternGeneratorWrapper::SetHumanize
SetHumanize(g, amount) ==
    LET max_frames == MaxJitterFrames(amount, g.frames_per_pulse)
    IN [g EXCEPT !.humanize_amount = amount,
                 !.humanize_max_frames = max_frames,
                 !.frames_since_last_tick =
                     IF max_frames > 0 THEN @ + max_frames ELSE @]

\* A SetSpread that divides the span among n mappings instead of n - 1 gaps.
SetSpreadOverCount(g, spread) ==
    LET n == Len(g.sample_mappings)
    IN [g EXCEPT !.spread = spread,
                 !.sample_mappings =
                    IF n = 0 THEN @
                    ELSE IF n = 1 THEN [@ EXCEPT ![1].pan = 0]
                    ELSE [i \in 1 .. n |->
                            [@[i] EXCEPT !.pan = -spread + (2 * spread * (i - 1)) \div n]]]

\* PatternGeneratorWrapper::SetSpread; spread and pans in thousandths, the
\* mapping at index i of the source being element i + 1 here.
SetSpread(g, spread) ==
    LET n == Len(g.sample_mappings)
    IN [g EXCEPT !.spread = spread,
                 !.sample_mappings =
                    IF n = 0 THEN @
                    ELSE IF n = 1 THEN [@ EXCEPT ![1].pan = 0]
                    ELSE [i \in 1 .. n |->
                            [@[i] EXCEPT !.pan = -spread + (2 * spread * (i - 1)) \div (n - 1)]]]

-----------------------------------------------------------------------------
(* The real-time path.  A world w = [g, p, d, h] is the wrapper, the player *)
(* it points to, the provider and the history.                              *)

World(g, p, d, h) == [g |-> g, p |-> p, d |-> d, h |-> h]

\* A full table that drops the trigger.
QueueDropsWhenFull(w, midi_note, velocity, pan) ==
    LET free == {i \in PendingSlots : ~w.g.pending_triggers[i].active}
        r == HumanizeRand(w.g.humanize_rng_state)
    IN IF free # {}
       THEN LET i == CHOOSE k \in free : \A j \in free : k <= j
                delay == HumanizeDelay(r, w.g.humanize_max_frames)
            IN [w EXCEPT
                  !.g.humanize_rng_state = r,
                  !.g.pending_triggers[i] =
                      [midi_note |-> midi_note, velocity |-> velocity, pan |-> pan,
                       delay_frames |-> delay, active |-> TRUE],
                  !.h.handed = @ + 1,
                  !.h.stored_delay = delay,
                  !.h.stored_max = w.g.humanize_max_frames]
       ELSE [w EXCEPT !.h.handed = @ + 1]

\* A table searched from its last slot down.
QueueTakesLastFree(w, midi_note, velocity, pan) ==
    LET free == {i \in PendingSlots : ~w.g.pending_triggers[i].active}
        r == HumanizeRand(w.g.humanize_rng_state)
    IN IF free # {}
       THEN LET i == CHOOSE k \in free : \A j \in free : k >= j
                delay == HumanizeDelay(r, w.g.humanize_max_frames)
            IN [w EXCEPT
                  !.g.humanize_rng_state = r,
                  !.g.pending_triggers[i] =
                      [midi_note |-> midi_note, velocity |-> velocity, pan |-> pan,
                       delay_frames |-> delay, active |-> TRUE],
                  !.h.handed = @ + 1,
                  !.h.stored_delay = delay,
                  !.h.stored_max = w.g.humanize_max_frames,
                  !.h.due_at[i] = IF delay >= 0 /\ w.g.humanize_max_frames < 1073741824
                                  THEN w.h.total_frames + delay ELSE -1,
                  !.h.queued_g[i] = IF w.h.setup = "humanized"
                                    THEN w.h.ticks * w.g.frames_per_pulse ELSE 0]
       ELSE [w EXCEPT
               !.p = PlayerTrigger(w.p, midi_note, velocity, pan),
               !.h.handed = @ + 1,
               !.h.fallback = @ + 1,
               !.h.jitter = IF w.h.setup = "humanized"
                            THEN @ \cup {w.h.frames_fed - w.h.ticks * w.g.frames_per_pulse}
                            ELSE @]

\* PatternGeneratorWrapper::QueueHumanizedTrigger
QueueHumanizedTrigger(w, midi_note, velocity, pan) ==
    LET free == {i \in PendingSlots : ~w.g.pending_triggers[i].active}
        r == HumanizeRand(w.g.humanize_rng_state)
    IN IF free # {}
       THEN LET i == CHOOSE k \in free : \A j \in free : k <= j
                delay == HumanizeDelay(r, w.g.humanize_max_frames)
            IN [w EXCEPT
                  !.g.humanize_rng_state = r,
                  !.g.pending_triggers[i] =
                      [midi_note |-> midi_note, velocity |-> velocity, pan |-> pan,
                       delay_frames |-> delay, active |-> TRUE],
                  !.h.handed = @ + 1,
                  !.h.stored_delay = delay,
                  !.h.stored_max = w.g.humanize_max_frames,
                  !.h.due_at[i] = IF delay >= 0 /\ w.g.humanize_max_frames < 1073741824
                                  THEN w.h.total_frames + delay ELSE -1,
                  !.h.queued_g[i] = IF w.h.setup = "humanized"
                                    THEN w.h.ticks * w.g.frames_per_pulse ELSE 0]
       ELSE [w EXCEPT
               !.p = PlayerTrigger(w.p, midi_note, velocity, pan),
               !.h.handed = @ + 1,
               !.h.fallback = @ + 1,
               !.h.jitter = IF w.h.setup = "humanized"
                            THEN @ \cup {w.h.frames_fed - w.h.ticks * w.g.frames_per_pulse}
                            ELSE @]

\* The loop body of ProcessPendingTriggers for slot i.
PendingSlotStep(w, i) ==
    LET t == w.g.pending_triggers[i]
    IN IF ~t.active THEN w
       ELSE IF t.delay_frames - 1 <= 0
       THEN [w EXCEPT
               !.p = PlayerTrigger(w.p, t.midi_note, t.velocity, t.pan),
               !.g.pending_triggers[i].delay_frames = t.delay_frames - 1,
               !.g.pending_triggers[i].active = FALSE,
               !.h.fired = @ + 1,
               !.h.queued_g[i] = 0,
               !.h.due_at[i] = -1,
               !.h.lateness = IF w.h.due_at[i] >= 0
                              THEN @ \cup {w.h.total_frames + 1 - w.h.due_at[i]}
                              ELSE @,
               !.h.jitter = IF w.h.setup = "humanized"
                            THEN @ \cup {w.h.frames_fed + 1 - w.h.queued_g[i]}
                            ELSE @]
       ELSE [w EXCEPT !.g.pending_triggers[i].delay_frames = t.delay_frames - 1]

RECURSIVE PendingFrom(_, _)
PendingFrom(w, i) ==
    IF i = kMaxPendingTriggers THEN w ELSE PendingFrom(PendingSlotStep(w, i), i + 1)

\* PatternGeneratorWrapper::ProcessPendingTriggers
ProcessPendingTriggers(w) == PendingFrom(w, 0)

\* PatternGeneratorWrapper::EvaluateVelocityPattern (velocity_step counts from 0)
EvaluateVelocityPattern(mapping) ==
    mapping.velocity_pattern[mapping.velocity_step + 1] # 0

\* velocity_step = (velocity_step + 1) % velocity_pattern.size(), stored in a
\* uint8_t
NextVelocityStep(mapping) ==
    ((mapping.velocity_step + 1) % Len(mapping.velocity_pattern)) % 256

\* The dispatch of one firing mapping that always goes through the table.
DispatchAlwaysQueues(w, i) ==
    LET m == w.g.sample_mappings[i]
        velocity == IF EvaluateVelocityPattern(m) THEN 10 ELSE 1
        sent == QueueHumanizedTrigger(w, m.midi_note, velocity, m.pan)
    IN [sent EXCEPT
          !.g.sample_mappings[i].velocity_step = NextVelocityStep(m),
          !.h.dispatched = @ + 1,
          !.h.last_velocity[i] = velocity]

\* The body of ProcessTriggers for mapping i of a part whose bit is set.
DispatchMapping(w, i) ==
    LET m == w.g.sample_mappings[i]
        velocity == IF EvaluateVelocityPattern(m) THEN 10 ELSE 1
        sent == IF w.g.humanize_max_frames > 0
                THEN QueueHumanizedTrigger(w, m.midi_note, velocity, m.pan)
                ELSE [w EXCEPT !.p = PlayerTrigger(w.p, m.midi_note, velocity, m.pan),
                               !.h.direct = @ + 1]
    IN [sent EXCEPT
          !.g.sample_mappings[i].velocity_step = NextVelocityStep(m),
          !.h.dispatched = @ + 1,
          !.h.last_velocity[i] = velocity]

\* The inner loop of ProcessTriggers over the mappings, from index i on.
RECURSIVE DispatchPartFrom(_, _, _)
DispatchPartFrom(w, part, i) ==
    IF i > Len(w.g.sample_mappings) THEN w
    ELSE DispatchPartFrom(
           IF w.g.sample_mappings[i].drum_part = part THEN DispatchMapping(w, i) ELSE w,
           part, i + 1)

\* The outer loop of ProcessTriggers over the parts, from part on.
RECURSIVE TriggersFrom(_, _, _)
TriggersFrom(w, state, part) ==
    IF part = kNumParts THEN w
    ELSE TriggersFrom(
           IF BitSet(state, part)
           THEN DispatchPartFrom([w EXCEPT !.h.part_pulses[part] = @ + 1], part, 1)
           ELSE w,
           state, part + 1)

\* PatternGeneratorWrapper::ProcessTriggers(state)
ProcessTriggers(w, state) ==
    TriggersFrom([w EXCEPT !.h.dispatch_passes = @ + 1,
                           !.h.call_log = Append(@, "dispatch")], state, 0)

-----------------------------------------------------------------------------
(* LFO drift and pattern change detection *)

\* Phases are kept in eighths of a turn (2 * pi = 8).
\* while (phase > 2 * pi) phase -= 2 * pi
WrapPhase(phase) == IF phase > 8 THEN ((phase - 1) % 8) + 1 ELSE phase

\* sinf(phase) in thousandths
SinThousandths(phase) ==
    CASE phase % 8 = 0 -> 0
      [] phase % 8 = 1 -> 707
      [] phase % 8 = 2 -> 1000
      [] phase % 8 = 3 -> 707
      [] phase % 8 = 4 -> 0
      [] phase % 8 = 5 -> -707
      [] phase % 8 = 6 -> -1000
      [] phase % 8 = 7 -> -707

\* static_cast<uint8_t>(127.5f + 127.5f * sinf(phase))
LfoCoordinate(phase) == (1275000 + 1275 * SinThousandths(phase)) \div 10000

\* The LFO loop body for one mapping.
LfoMapping(m, frames_per_pulse) ==
    LET x_phase == WrapPhase(m.lfo_x_phase + m.lfo_x_freq * frames_per_pulse)
        y_phase == WrapPhase(m.lfo_y_phase + m.lfo_y_freq * frames_per_pulse)
    IN [m EXCEPT !.lfo_x_phase = x_phase, !.lfo_y_phase = y_phase,
                 !.x = LfoCoordinate(x_phase), !.y = LfoCoordinate(y_phase)]

RECURSIVE SumX(_, _)
SumX(mappings, i) == IF i > Len(mappings) THEN 0 ELSE mappings[i].x + SumX(mappings, i + 1)

RECURSIVE SumY(_, _)
SumY(mappings, i) == IF i > Len(mappings) THEN 0 ELSE mappings[i].y + SumY(mappings, i + 1)

\* PatternGeneratorWrapper::ComputePatternBits: each mask as the set of its bits
ComputePatternBits(g, d, x, y) ==
    [inst \in Parts |->
       {step \in 0 .. (g.num_steps - 1) :
          GetDrumMapLevel(step, inst, x, y) > 255 - d.density[inst]}]

\* A change detection that compares every part, mapped or not.
DetectEveryPart(g, d) ==
    LET bits == ComputePatternBits(g, d, d.x, d.y)
    IN IF \E i \in Parts : bits[i] # g.prev_pattern_bits[i]
       THEN [g EXCEPT !.prev_pattern_bits = bits,
                      !.pending_pattern_bits = bits,
                      !.pending_pattern_x = d.x,
                      !.pending_pattern_y = d.y,
                      !.pattern_changed = TRUE]
       ELSE g

\* PatternGeneratorWrapper::DetectPatternChange
DetectPatternChange(g, d) ==
    LET bits == ComputePatternBits(g, d, d.x, d.y)
        changed == \E i \in Parts :
                     /\ \E j \in 1 .. Len(g.sample_mappings) :
                          g.sample_mappings[j].drum_part = i
                     /\ bits[i] # g.prev_pattern_bits[i]
    IN IF changed
       THEN [g EXCEPT !.prev_pattern_bits = bits,
                      !.pending_pattern_bits = bits,
                      !.pending_pattern_x = d.x,
                      !.pending_pattern_y = d.y,
                      !.pattern_changed = TRUE]
       ELSE g

\* With an infinite frequency and frames_per_pulse_ > 0 the phase becomes
\* +infinity and `while (phase > 2 * pi) phase -= 2 * pi` does not end.
LfoHangs(g) ==
    /\ g.frames_per_pulse > 0
    /\ \E j \in 1 .. Len(g.sample_mappings) :
          g.sample_mappings[j].lfo_x_freq = Infinity

\* The LFO block of Process: every mapping's phases and coordinates, the
\* provider's x and y, then the change detection.
LfoUpdate(w) ==
    IF w.g.lfo_enabled /\ w.g.sample_mappings # <<>>
    THEN IF LfoHangs(w.g)
         THEN [w EXCEPT !.h.call_log = Append(@, "lfo"), !.h.hung = TRUE]
         ELSE
         LET mappings == [j \in 1 .. Len(w.g.sample_mappings) |->
                            LfoMapping(w.g.sample_mappings[j], w.g.frames_per_pulse)]
             d == [w.d EXCEPT !.x = SumX(mappings, 1) \div Len(mappings),
                              !.y = SumY(mappings, 1) \div Len(mappings)]
             g == [w.g EXCEPT !.sample_mappings = mappings]
         IN [w EXCEPT !.g = DetectPatternChange(g, d), !.d = d,
                      !.h.call_log = @ \o <<"lfo", "detect">>]
    ELSE w

-----------------------------------------------------------------------------
(* PatternGeneratorWrapper::Process *)

\* A wrap that lets the provider stand on step num_steps_ before it resets.
TickAndWrapLate(w, bits) ==
    LET d == TickClock(w.d, bits)
    IN [w EXCEPT !.d = IF w.g.num_steps < kStepsPerPattern /\ d.step > w.g.num_steps
                       THEN [d EXCEPT !.step = 0] ELSE d,
                 !.h.ticks = @ + 1,
                 !.h.state_steps = @ \cup {d.step},
                 !.h.call_log = Append(@, "tick")]

\* TickClock(1), then the wrap of the provider's step at num_steps_.
TickAndWrap(w, bits) ==
    LET d == TickClock(w.d, bits)
    IN [w EXCEPT !.d = IF w.g.num_steps < kStepsPerPattern /\ d.step >= w.g.num_steps
                       THEN [d EXCEPT !.step = 0] ELSE d,
                 !.h.ticks = @ + 1,
                 !.h.state_steps = @ \cup {d.step},
                 !.h.call_log = Append(@, "tick")]

\* What Process does when a pulse has elapsed: LFO, tick, wrap, dispatch,
\* IncrementPulseCounter (which changes nothing the wrapper reads).
Pulse(w, bits) ==
    LET drifted == LfoUpdate(w)
        ticked == TickAndWrap(drifted, bits)
        dispatched == ProcessTriggers(
                          [ticked EXCEPT !.h.read_steps = @ \cup {ticked.d.step}],
                          ticked.d.state)
    IN IF drifted.h.hung THEN drifted
       ELSE [dispatched EXCEPT !.h.call_log = Append(@, "increment")]

\* A pulse test that needs more than frames_per_pulse_ frames.
FrameLatePulse(w, bits) ==
    LET pended == IF w.g.humanize_max_frames > 0 THEN ProcessPendingTriggers(w) ELSE w
        counted == [pended EXCEPT !.g.frames_since_last_tick = @ + 1,
                                  !.h.frames_fed = @ + 1,
                                  !.h.total_frames = @ + 1]
    IN IF counted.g.frames_since_last_tick > counted.g.frames_per_pulse
       THEN Pulse([counted EXCEPT !.g.frames_since_last_tick =
                                     @ - counted.g.frames_per_pulse], bits)
       ELSE counted

\* One iteration of the frame loop of Process; bits is the provider's state
\* should this frame complete a pulse.
Frame(w, bits) ==
    LET pended == IF w.g.humanize_max_frames > 0 THEN ProcessPendingTriggers(w) ELSE w
        counted == [pended EXCEPT !.g.frames_since_last_tick = @ + 1,
                                  !.h.frames_fed = @ + 1,
                                  !.h.total_frames = @ + 1]
    IN IF counted.g.frames_since_last_tick >= counted.g.frames_per_pulse
       THEN Pulse([counted EXCEPT !.g.frames_since_last_tick =
                                     @ - counted.g.frames_per_pulse], bits)
       ELSE counted

RECURSIVE FramesFrom(_, _, _, _)
FramesFrom(w, i, num_frames, bits) ==
    IF i > num_frames \/ w.h.hung THEN w
    ELSE FramesFrom(Frame(w, bits[i]), i + 1, num_frames, bits)

\* A Process that counts the block's frames at once and runs at most one
\* pulse for it, at the block's end.
GenProcessPerBlock(w, num_frames, bits) ==
    IF w.g.sample_player = NULL \/ num_frames = 0 THEN w
    ELSE LET counted == [w EXCEPT !.g.frames_since_last_tick = @ + num_frames,
                                  !.h.frames_fed = @ + num_frames,
                                  !.h.total_frames = @ + num_frames,
                                  !.h.call_log = <<>>,
                                  !.h.read_steps = {},
                                  !.h.state_steps = {}]
         IN IF counted.g.frames_since_last_tick >= counted.g.frames_per_pulse
            THEN Pulse([counted EXCEPT !.g.frames_since_last_tick =
                                          @ - counted.g.frames_per_pulse],
                       bits[num_frames])
            ELSE counted

\* A Process that runs its frames without looking at sample_player_.
GenProcessUnattached(w, num_frames, bits) ==
    FramesFrom([w EXCEPT !.h.call_log = <<>>], 1, num_frames, bits)

\* PatternGeneratorWrapper::Process(num_frames); bits[i] is the provider's
\* state for frame i.
GenProcess(w, num_frames, bits) ==
    IF w.g.sample_player = NULL THEN w
    ELSE FramesFrom([w EXCEPT !.h.call_log = <<>>, !.h.read_steps = {},
                           !.h.state_steps = {}],
                    1, num_frames, bits)

-----------------------------------------------------------------------------
(* The public calls on the SamplePlayer, as actions *)

\* Inputs of the calls: notes in the bank, absent (61) and empty (64);
\* velocities 0.1, 1.0 and 1.5; pans hard left and centre.
TriggerNotes == {60, 61, 62, 64}
TriggerVelocities == {1, 10, 15}
TriggerPans == {-1000, 0}
\* The smaller choice used where Process calls interleave.
MixNotes == {60, 61, 62, 64}
MixVelocities == {1, 15}
\* What a caller's buffer holds before the call.
StaleSample == 7

\* A public call and its arguments; stole records was_active of an accepted
\* Trigger.
Call(op, midi_note, velocity, pan, num_frames, null_buffer) ==
    [op |-> op, midi_note |-> midi_note, velocity |-> velocity, pan |-> pan,
     num_frames |-> num_frames, null_buffer |-> null_buffer, stole |-> FALSE]

NoCall == Call("none", 0, 0, 0, 0, FALSE)

NoOutput == [mono |-> NullBuffer, left |-> NullBuffer, right |-> NullBuffer]

\* Neither thread is inside its function: the audio thread is between two
\* pulses, the main thread is about to test the flag.
NewThreads ==
    [audio |-> [pc |-> "idle", part |-> 0, x |-> 0, y |-> 0,
                bits |-> [i \in Parts |-> {}],
                raised |-> FALSE],  \* the store of the flag has taken effect
                                    \*   ahead of the stores before it
     main |-> [pc |-> "flag", part |-> 0, unread |-> {}, x |-> 0, y |-> 0,
               bits |-> [i \in Parts |-> {}]],
     published |-> {},   \* the payloads DetectPatternChange set out to publish
     rendered |-> {}]    \* the snapshot PrintPendingPattern rendered last

\* Every object as its constructor leaves it.
Constructed ==
    /\ threads = NewThreads
    /\ player = NewPlayer
    /\ out = NoOutput
    /\ last_call = NoCall
    /\ gen = NewGen
    /\ grids = NewGrids
    /\ hist = NewHist

DoPlayerInit ==
    /\ player' = PlayerInit(player, "bank")
    /\ last_call' = Call("Init", 0, 0, 0, 0, FALSE)
    /\ out' = NoOutput
    /\ UNCHANGED <<gen, grids, hist, threads>>

DoTrigger(midi_note, velocity, pan, cap) ==
    /\ player.total_triggers < cap
    /\ player' = PlayerTrigger(player, midi_note, velocity, pan)
    /\ last_call' = [Call("Trigger", midi_note, velocity, pan, 0, FALSE)
                       EXCEPT !.stole = /\ TriggerAccepted(player, midi_note)
                                        /\ player.voice_pool[player.next_voice_index].active]
    /\ out' = NoOutput
    /\ UNCHANGED <<gen, grids, hist, threads>>

DoProcess(output, num_frames) ==
    LET r == PlayerProcess(player, output, num_frames)
    IN /\ player' = r.player
       /\ out' = [NoOutput EXCEPT !.mono = r.output]
       /\ last_call' = Call("Process", 0, 0, 0, num_frames, output.null)
       /\ UNCHANGED <<gen, grids, hist, threads>>

DoProcessStereo(left, right, num_frames) ==
    LET r == PlayerProcessStereo(player, left, right, num_frames)
    IN /\ player' = r.player
       /\ out' = [NoOutput EXCEPT !.left = r.left, !.right = r.right]
       /\ last_call' = Call("ProcessStereo", 0, 0, 0, num_frames,
                            left.null \/ right.null)
       /\ UNCHANGED <<gen, grids, hist, threads>>

CallerBuffers == {NullBuffer, Buffer(StaleSample)}
StereoBuffers ==
    {<<Buffer(StaleSample), Buffer(StaleSample)>>,
     <<NullBuffer, Buffer(StaleSample)>>,
     <<Buffer(StaleSample), NullBuffer>>}

\* Trigger calls only, on a player that may be (re)initialised.
NextTrigger ==
    \/ DoPlayerInit
    \/ \E n \in TriggerNotes, v \in TriggerVelocities, pn \in TriggerPans :
          DoTrigger(n, v, pn, MaxTriggers)

SpecTrigger == Constructed /\ [][NextTrigger]_vars

\* Every public call of the SamplePlayer.
NextPlayer ==
    \/ DoPlayerInit
    \/ \E n \in MixNotes, v \in MixVelocities, pn \in TriggerPans :
          DoTrigger(n, v, pn, MaxMixTriggers)
    \/ \E b \in CallerBuffers, f \in 0 .. MaxFrames : DoProcess(b, f)
    \/ \E lr \in StereoBuffers, f \in 0 .. MaxFrames :
          DoProcessStereo(lr[1], lr[2], f)

SpecPlayer == Constructed /\ [][NextPlayer]_vars

-----------------------------------------------------------------------------
(* The public calls on the PatternGeneratorWrapper, as actions *)

\* Largest num_frames handed to PatternGeneratorWrapper::Process.
MaxBlock == 2
\* Cap on the frames processed in one behaviour.
MaxClockFrames == 5

DoGenInit(sample_rate, bpm, seed) ==
    /\ gen' = GenInit(gen, sample_rate, bpm, seed)
    /\ grids' = GridsInit
    /\ hist' = [hist EXCEPT !.frames_fed = 0, !.ticks = 0, !.dispatch_passes = 0,
                            !.clock_touched = FALSE, !.setup = "init",
                            !.jitter = {}]
    /\ last_call' = Call("GenInit", 0, 0, 0, 0, FALSE)
    /\ out' = NoOutput
    /\ UNCHANGED <<player, threads>>

DoAssign(mappings, num_velocity_steps) ==
    /\ gen' = AssignSamplesToParts(gen, mappings, num_velocity_steps)
    /\ hist' = [hist EXCEPT !.part_pulses = [i \in Parts |-> 0],
                            !.last_velocity = [i \in 1 .. Len(mappings) |-> 0]]
    /\ last_call' = Call("AssignSamplesToParts", 0, 0, 0, 0, FALSE)
    /\ out' = NoOutput
    /\ UNCHANGED <<player, grids, threads>>

DoSetTempo(bpm) ==
    /\ gen' = SetTempo(gen, bpm)
    /\ hist' = [hist EXCEPT !.clock_touched = TRUE, !.setup = "other"]
    /\ last_call' = Call("SetTempo", 0, 0, 0, 0, FALSE)
    /\ out' = NoOutput
    /\ UNCHANGED <<player, grids, threads>>

\* The jitter is switched on only while the accumulator is within one pulse,
\* which keeps frames_since_last_tick_ far from the end of its 32 bits.
DoSetHumanize(amount) ==
    /\ MaxJitterFrames(amount, gen.frames_per_pulse) > 0
         => gen.frames_since_last_tick <= gen.frames_per_pulse
    /\ gen' = SetHumanize(gen, amount)
    /\ hist' = [hist EXCEPT !.clock_touched = @ \/ gen'.humanize_max_frames > 0,
                            !.setup = IF /\ @ = "init"
                                         /\ hist.frames_fed = 0
                                         /\ gen'.humanize_max_frames > 0
                                      THEN "humanized" ELSE "other"]
    /\ last_call' = Call("SetHumanize", 0, 0, 0, 0, FALSE)
    /\ out' = NoOutput
    /\ UNCHANGED <<player, grids, threads>>

\* The audio thread calls Process again once the call before has returned;
\* with frames_per_pulse_ = 0 an infinite LFO frequency gives a phase that is
\* not a number, whose cast to uint8_t is undefined: that call is left out.
DoGenProcess(num_frames, bits, cap) ==
    /\ ~hist.hung
    /\ gen.lfo_enabled /\ gen.frames_per_pulse = 0 =>
          \A j \in 1 .. Len(gen.sample_mappings) :
             gen.sample_mappings[j].lfo_x_freq # Infinity
    /\ hist.total_frames + num_frames <= cap
    /\ LET w == GenProcess(World(gen, player, grids, hist), num_frames, bits)
       IN /\ gen' = w.g
          /\ player' = w.p
          /\ grids' = w.d
          /\ hist' = w.h
    /\ last_call' = Call("GenProcess", 0, 0, 0, num_frames, FALSE)
    /\ out' = NoOutput
    /\ UNCHANGED threads

\* sample_rate and bpm pairs: frames_per_pulse 1, 2, 4 and 2 (from 2.5)
ClockRates == {<<48, 120>>, <<96, 120>>, <<96, 60>>, <<120, 120>>}
ClockSeeds == {U32(0, 1)}
ClockAssignments ==
    {[mappings |-> <<Mapping(60, 0, <<1, 0>>, 0)>>, steps |-> 2]}
ClockTempos == {60}
ClockAmounts == {0}
ClockBits == {0, 1}

NextClock ==
    \/ DoPlayerInit
    \/ \E r \in ClockRates, seed \in ClockSeeds : DoGenInit(r[1], r[2], seed)
    \/ \E a \in ClockAssignments : DoAssign(a.mappings, a.steps)
    \/ \E b \in ClockTempos : DoSetTempo(b)
    \/ \E a \in ClockAmounts : DoSetHumanize(a)
    \/ \E n \in 0 .. MaxBlock :
         \E bits \in [1 .. n -> ClockBits] : DoGenProcess(n, bits, MaxClockFrames)

SpecClock == Constructed /\ [][NextClock]_vars

\* A velocity pattern longer than a uint8_t cursor can index (-s 257).
LongSteps == 257
\* Cap on the frames processed in one behaviour with the long pattern.
MaxVelocityFrames == 258

\* Two short patterns on two parts, and one long pattern on part 0 whose last
\* entry alone is low.
VelocityAssignments ==
    {[mappings |-> <<Mapping(60, 0, <<1, 0>>, 0), Mapping(62, 1, <<0, 1, 1>>, 0)>>,
      steps |-> 3],
     [mappings |-> <<Mapping(61, 0, [i \in 1 .. LongSteps |->
                                       IF i = LongSteps THEN 0 ELSE 1], 0)>>,
      steps |-> LongSteps]}
\* The provider's state on a pulse: part 0 fires on every one, part 1 never.
VelocityBits == {1}

\* The calls in the order main() makes them: Init and AssignSamplesToParts
\* before the audio callback starts calling Process.
NextVelocity ==
    \/ /\ hist.total_frames = 0
       /\ \E seed \in ClockSeeds : DoGenInit(48, 120, seed)
    \/ /\ hist.total_frames = 0
       /\ \E a \in VelocityAssignments : DoAssign(a.mappings, a.steps)
    \/ \E n \in 1 .. MaxBlock :
         \E bits \in [1 .. n -> VelocityBits] : DoGenProcess(n, bits, MaxVelocityFrames)

SpecVelocity == Constructed /\ [][NextVelocity]_vars

\* Cap on the frames processed in one behaviour with the jitter on.
MaxHumanizeFrames == 4

\* sample_rate and bpm pairs: frames_per_pulse 1 and 1000000000
HumanizeRates == {<<48, 120>>, <<2000000000, 5>>}
\* Values rand() seeds the humanize generator with.
HumanizeSeeds == {U32(0, 3), U32(0, 1000)}
\* Three mappings on part 0, so that one pulse dispatches three triggers.
HumanizeAssignments ==
    {[mappings |-> <<Mapping(60, 0, <<1, 0>>, 0), Mapping(62, 0, <<0, 1>>, 0),
                     Mapping(60, 0, <<0, 0>>, 0)>>,
      steps |-> 2]}
\* Humanize amounts 0.0 and 1.0
HumanizeAmounts == {0, 10}
HumanizeBits == {0, 1}

\* Init and AssignSamplesToParts come before the audio callback starts, as
\* in main(); SetHumanize and SamplePlayer::Init at any time.
NextHumanize ==
    \/ DoPlayerInit
    \/ /\ hist.total_frames = 0
       /\ \E r \in HumanizeRates, seed \in HumanizeSeeds : DoGenInit(r[1], r[2], seed)
    \/ /\ hist.total_frames = 0
       /\ \E a \in HumanizeAssignments : DoAssign(a.mappings, a.steps)
    \/ \E a \in HumanizeAmounts : DoSetHumanize(a)
    \/ \E n \in 1 .. MaxBlock :
         \E bits \in [1 .. n -> HumanizeBits] : DoGenProcess(n, bits, MaxHumanizeFrames)

SpecHumanize == Constructed /\ [][NextHumanize]_vars

-----------------------------------------------------------------------------
(* Properties of the SamplePlayer *)

Min(a, b) == IF a < b THEN a ELSE b

ActiveSlots == {s \in Slots : player.voice_pool[s].active}

\* C1: after every call of a sequence of Trigger calls on an initialised
\* player (no Process in between), GetActiveVoiceCount() is at most
\* kMaxVoices.
C1_ActiveCountWithinPool == player.active_voice_count <= kMaxVoices

\* A full pool that has had a slot stolen by the last Trigger.
C1_Witness ==
    /\ last_call.op = "Trigger"
    /\ last_call.stole
    /\ player.active_voice_count = kMaxVoices
    /\ player.total_triggers > kMaxVoices

\* C2: a Trigger for a note the bank does not hold, or whose sample is
\* empty, changes nothing: count, total, cursor and every slot stay as they
\* were.
C2_UnknownNoteIsNoOp ==
    [][(/\ last_call'.op = "Trigger"
        /\ \/ GetSample(last_call'.midi_note) = <<>>
           \/ GetSample(last_call'.midi_note)[1].data = <<>>)
       => /\ player'.active_voice_count = player.active_voice_count
          /\ player'.total_triggers = player.total_triggers
          /\ player'.next_voice_index = player.next_voice_index
          /\ player'.voice_pool = player.voice_pool]_vars

\* An empty-sample Trigger made while a voice is part-way through its sample.
C2_Witness ==
    /\ last_call.op = "Trigger"
    /\ last_call.midi_note = 64
    /\ player.total_triggers > 0
    /\ \E s \in ActiveSlots : player.voice_pool[s].position > 0

\* C3: every accepted Trigger writes the slot at the cursor, active or not
\* and whatever the other slots hold, leaves the other slots alone and
\* advances the cursor by one modulo kMaxVoices; the slot it takes is one
\* whose last allocation is the least recent.
C3_RoundRobinAllocation ==
    [][(last_call'.op = "Trigger" /\ TriggerAccepted(player, last_call'.midi_note))
       => LET i == player.next_voice_index
              sample == GetSample(last_call'.midi_note)[1]
          IN /\ player'.voice_pool[i] =
                   InitVoice(sample.data, sample.length,
                             ClampVelocity(last_call'.velocity),
                             PanLeftGain(last_call'.pan),
                             PanRightGain(last_call'.pan))
             /\ \A s \in Slots \ {i} : player'.voice_pool[s] = player.voice_pool[s]
             /\ player'.next_voice_index = (i + 1) % kMaxVoices
             /\ \A s \in Slots : player.last_alloc[i] <= player.last_alloc[s]
             /\ player'.last_alloc[i] = player'.total_triggers]_vars

\* A Trigger that stole an active slot while another slot was free.
C3_Witness ==
    /\ last_call.op = "Trigger"
    /\ last_call.stole
    /\ \E s \in Slots : ~player.voice_pool[s].active

\* The first kMaxVoices voices (ordinals 1 .. kMaxVoices) no slot holds any
\* more.
OverwrittenEarly ==
    {o \in 1 .. kMaxVoices : \A s \in Slots : player.last_alloc[s] # o}

\* C4: kMaxVoices + k accepted triggers in immediate succession on a fresh
\* pool leave exactly min(k, kMaxVoices) of the first kMaxVoices voices
\* overwritten, and the active count within the pool.
C4_StealingTruncatesEarliest ==
    player.total_triggers >= kMaxVoices
    => /\ Cardinality(OverwrittenEarly) =
             Min(player.total_triggers - kMaxVoices, kMaxVoices)
       /\ player.active_voice_count <= kMaxVoices

\* More than 2 * kMaxVoices triggers: every early voice is gone.
C4_Witness ==
    /\ player.total_triggers = 2 * kMaxVoices + 1
    /\ Cardinality(OverwrittenEarly) = kMaxVoices
    /\ player.active_voice_count = kMaxVoices

\* C5: Process and ProcessStereo with num_frames >= 1 on a pool with no
\* active voice leave zero in each of the first num_frames positions of the
\* buffer(s), which held other values before the call.
C5_IdlePoolIsSilent ==
    [][(/\ last_call'.op \in {"Process", "ProcessStereo"}
        /\ last_call'.num_frames >= 1
        /\ ~last_call'.null_buffer
        /\ \A s \in Slots : ~player.voice_pool[s].active)
       => \A i \in 1 .. last_call'.num_frames :
            IF last_call'.op = "Process"
            THEN out'.mono.data[i] = 0
            ELSE out'.left.data[i] = 0 /\ out'.right.data[i] = 0]_vars

\* A Process on a pool whose triggered voices have all finished.
C5_Witness ==
    /\ last_call.op = "Process"
    /\ last_call.num_frames = MaxFrames
    /\ ~last_call.null_buffer
    /\ player.total_triggers > 0
    /\ player.active_voice_count = 0
    /\ \A s \in Slots : ~player.voice_pool[s].active
    /\ \A i \in 1 .. MaxFrames : out.mono.data[i] = 0

\* The pool with every inactive slot holding a sample at its start, as if
\* only its flag had been cleared.
InactiveLoud(pool) ==
    [s \in Slots |->
       IF pool[s].active THEN pool[s]
       ELSE [pool[s] EXCEPT !.sample_data = <<StaleSample, StaleSample>>,
                            !.sample_length = 2,
                            !.position = 0]]

\* C19: in every state each voice has position <= sample_length; after every
\* Process or ProcessStereo call each voice still active has
\* position < sample_length; and what a Process call writes is the mix of
\* the active voices alone, whatever the inactive slots hold.
C19_PositionWithinSample ==
    /\ [](/\ \A s \in Slots :
              player.voice_pool[s].position <= player.voice_pool[s].sample_length
          /\ last_call.op \in {"Process", "ProcessStereo"} =>
                \A s \in ActiveSlots :
                   player.voice_pool[s].position < player.voice_pool[s].sample_length)
    /\ [][(/\ last_call'.op \in {"Process", "ProcessStereo"}
           /\ last_call'.num_frames >= 1
           /\ ~last_call'.null_buffer)
          => LET n == last_call'.num_frames
                 pool == InactiveLoud(player.voice_pool)
             IN \A i \in 1 .. n :
                  IF last_call'.op = "Process"
                  THEN out'.mono.data[i] = MixMono(pool, i, n, 0)
                  ELSE /\ out'.left.data[i] = MixLeft(pool, i, n, 0)
                       /\ out'.right.data[i] = MixRight(pool, i, n, 0)]_vars

\* A Process that left one voice part-way through its sample and found the
\* other slot inactive, its voice having finished before.
C19_Witness ==
    /\ last_call.op = "Process"
    /\ last_call.num_frames >= 1
    /\ ~last_call.null_buffer
    /\ \E s \in ActiveSlots : player.voice_pool[s].position > 0
    /\ \E s \in Slots \ ActiveSlots : player.last_alloc[s] > 0
    /\ \E i \in 1 .. last_call.num_frames : out.mono.data[i] # 0

\* C20: after any sequence of Trigger, Process and ProcessStereo calls,
\* GetActiveVoiceCount() is the number of pool slots whose active flag is
\* true.
C20_CountIsActiveSlots ==
    player.active_voice_count = Cardinality(ActiveSlots)

-----------------------------------------------------------------------------
(* Properties of the pulse clock *)

\* frames_per_pulse_ is the exact quotient 60 * sample_rate / (24 * bpm)
IntegerFramesPerPulse ==
    /\ gen.frames_per_pulse >= 1
    /\ (5 * gen.sample_rate) % (2 * gen.bpm) = 0

\* Init has run, and since then the jitter is off and neither SetTempo nor
\* SetHumanize has moved the clock.
FromInitHumanizeOff ==
    /\ gen.sample_player # NULL
    /\ gen.humanize_max_frames = 0
    /\ ~hist.clock_touched

\* C6: from Init with humanize off and an integer frames-per-pulse F, after N
\* frames fed to Process there have been exactly floor(N / F) pulses, each
\* one provider tick and one dispatch pass, and the accumulator is N mod F.
C6_PulsesPerFramesFed ==
    (FromInitHumanizeOff /\ IntegerFramesPerPulse) =>
        /\ hist.ticks = hist.frames_fed \div gen.frames_per_pulse
        /\ hist.dispatch_passes = hist.ticks
        /\ gen.frames_since_last_tick = hist.frames_fed % gen.frames_per_pulse

\* Two and a half pulse lengths fed: two pulses, half a pulse carried over.
C6_Witness ==
    /\ FromInitHumanizeOff /\ IntegerFramesPerPulse
    /\ gen.frames_per_pulse = 2
    /\ hist.frames_fed = 5
    /\ hist.ticks = 2
    /\ hist.dispatch_passes = 2
    /\ gen.frames_since_last_tick = 1

-----------------------------------------------------------------------------
(* Properties of the dispatch *)

\* The velocity the k-th firing (from 0) of a mapping is to be dispatched with
VelocityAt(mapping, k) ==
    IF mapping.velocity_pattern[(k % Len(mapping.velocity_pattern)) + 1] # 0
    THEN 10 ELSE 1

\* C7: the k-th firing of a mapping's part is dispatched with velocity 1.0 or
\* 0.1 as its velocity sequence is non-zero or zero at index k mod length; the
\* cursor advances by one modulo the length on each firing and stays on the
\* pulses where the part's bit is not set: after k firings it is k mod length.
C7_VelocityFollowsCursor ==
    \A i \in 1 .. Len(gen.sample_mappings) :
        LET m == gen.sample_mappings[i]
            k == hist.part_pulses[m.drum_part]
        IN /\ m.velocity_step = k % Len(m.velocity_pattern)
           /\ k > 0 => hist.last_velocity[i] = VelocityAt(m, k - 1)

-----------------------------------------------------------------------------
(* Properties of the humanize scheduler *)

\* C8: every delay QueueHumanizedTrigger stores lies in [0, 2 * M], M being
\* the humanize_max_frames_ > 0 it was drawn for, whatever the generator's
\* state and whatever M was set.
C8_StoredDelayWithinWindow ==
    hist.stored_max > 0 =>
        /\ hist.stored_delay >= 0
        /\ \/ hist.stored_delay <= hist.stored_max
           \/ hist.stored_delay - hist.stored_max <= hist.stored_max

ActivePending == {i \in PendingSlots : gen.pending_triggers[i].active}

\* C9: with humanize_max_frames_ = 0 every trigger a Process call dispatches
\* is passed to SamplePlayer::Trigger in the frame of its pulse (none goes to
\* the scheduler, and the player counts each one whose note it holds), and no
\* pending slot becomes active.
C9_NoJitterDispatchesDirectly ==
    [][(last_call'.op = "GenProcess" /\ gen.humanize_max_frames = 0) =>
          /\ hist'.direct - hist.direct = hist'.dispatched - hist.dispatched
          /\ hist'.handed = hist.handed
          /\ hist'.fired = hist.fired
          /\ player.sample_bank # NULL =>
                player'.total_triggers - player.total_triggers
                    = hist'.dispatched - hist.dispatched
          /\ \A i \in PendingSlots :
                gen'.pending_triggers[i].active => gen.pending_triggers[i].active
      ]_vars

\* A Process call without jitter has dispatched a pulse's three triggers, and
\* the player has counted them.
C9_Witness ==
    /\ last_call.op = "GenProcess"
    /\ gen.humanize_max_frames = 0
    /\ hist.handed = 0
    /\ hist.direct >= 3
    /\ player.total_triggers = hist.direct

\* C10: the triggers handed to the scheduler are those it has passed to
\* SamplePlayer::Trigger (from a due slot, or at once from a full table) plus
\* the active pending slots; and with every slot active QueueHumanizedTrigger
\* calls SamplePlayer::Trigger at once and leaves the table as it is.
C10_NoTriggerLostToCapacity ==
    /\ hist.handed = hist.fired + hist.fallback + Cardinality(ActivePending)
    /\ ActivePending = PendingSlots =>
          \A midi_note \in BankNotes, velocity \in {1, 10} :
              LET w == QueueHumanizedTrigger(World(gen, player, grids, hist),
                                             midi_note, velocity, 0)
              IN /\ w.g = gen
                 /\ w.p = PlayerTrigger(player, midi_note, velocity, 0)
                 /\ w.h.fallback = hist.fallback + 1
                 /\ w.h.handed = hist.handed + 1

\* The table is full, a trigger has been played at once for that reason, and
\* another has been played from a slot that fell due.
C10_Witness ==
    /\ ActivePending = PendingSlots
    /\ hist.fallback > 0
    /\ hist.fired > 0
    /\ player.total_triggers = hist.fired + hist.fallback

-----------------------------------------------------------------------------
(* The scheduler while Process keeps being called *)

\* PatternGeneratorWrapper::SetLfoEnabled
SetLfoEnabled(g, enabled) == [g EXCEPT !.lfo_enabled = enabled]

DoSetLfoEnabled(enabled) ==
    /\ gen' = SetLfoEnabled(gen, enabled)
    /\ last_call' = Call("SetLfoEnabled", 0, 0, 0, 0, FALSE)
    /\ out' = NoOutput
    /\ UNCHANGED <<player, grids, hist, threads>>

\* PatternGeneratorWrapper::Process in a behaviour that never ends: of the
\* history only the scheduler's counters are kept, and whether a frame has
\* been processed.
DoGenProcessForEver(num_frames, bits) ==
    /\ ~hist.hung
    /\ last_call' = Call("GenProcess", 0, 0, 0, num_frames, FALSE)
    /\ out' = NoOutput
    /\ UNCHANGED threads
    /\ \E w \in {GenProcess(World(gen, player, grids, hist), num_frames, bits)} :
          /\ gen' = w.g
          /\ player' = w.p
          /\ grids' = w.d
          /\ hist' = [hist EXCEPT !.total_frames = Min(w.h.total_frames, 1),
                                  !.handed = w.h.handed,
                                  !.fired = w.h.fired,
                                  !.fallback = w.h.fallback]

\* The number of triggers the provider's pattern holds in such a behaviour.
MaxPendingHanded == 1

PendingTempos == {120}
PendingAmounts == {0, 10}
PendingAssignments ==
    {[mappings |-> <<Mapping(60, 0, <<1, 0>>, 0)>>, steps |-> 2]}
\* The provider fires part 0 until its pattern is used up, then stays silent.
PendingBits == IF hist.handed < MaxPendingHanded THEN {0, 1} ELSE {0}

ProcessForEver ==
    \E n \in 1 .. MaxBlock :
        \E bits \in [1 .. n -> PendingBits] : DoGenProcessForEver(n, bits)

\* Init and AssignSamplesToParts before the first frame; then the setters
\* named at any time between Process calls.
NextPending ==
    \/ /\ hist.total_frames = 0
       /\ \E seed \in ClockSeeds : DoGenInit(48, 120, seed)
    \/ /\ hist.total_frames = 0
       /\ \E a \in PendingAssignments : DoAssign(a.mappings, a.steps)
    \/ \E a \in PendingAmounts : DoSetHumanize(a)
    \/ \E b \in PendingTempos : DoSetTempo(b)
    \/ ProcessForEver

\* The audio callback keeps calling Process with frames.
SpecPending == Constructed /\ [][NextPending]_vars /\ WF_vars(ProcessForEver)

\* C11: every trigger placed in the pending table is eventually passed to
\* SamplePlayer::Trigger (its slot falls inactive again) while Process keeps
\* being called, whatever SetHumanize and SetTempo calls come in between.
C11_PendingEventuallyFires ==
    \A i \in PendingSlots :
        gen.pending_triggers[i].active ~> ~gen.pending_triggers[i].active

-----------------------------------------------------------------------------
(* Misconfiguration *)

\* sample_rate and bpm pairs: a zero sample rate, a tempo too fast for the
\* rate (both give frames_per_pulse 0), and a sound pair.
MisconfigRates == {<<0, 120>>, <<48, 200>>, <<48, 120>>}
\* A request for zero velocity steps, whose mapping lands on part 1, and a
\* sound request.
MisconfigAssignments ==
    {[mappings |-> <<Mapping(60, 1, <<>>, 0)>>, steps |-> 0],
     [mappings |-> <<Mapping(60, 0, <<1, 0>>, 0)>>, steps |-> 2]}
\* The provider's state on a pulse: nothing, or part 0 (part 1 stays silent,
\* so the empty sequence is held but not yet read).
MisconfigBits == {0, 1}

NextMisconfig ==
    \/ \E r \in MisconfigRates, seed \in ClockSeeds : DoGenInit(r[1], r[2], seed)
    \/ \E a \in MisconfigAssignments : DoAssign(a.mappings, a.steps)
    \/ \E n \in 1 .. MaxBlock :
         \E bits \in [1 .. n -> MisconfigBits] : DoGenProcess(n, bits, MaxClockFrames)

SpecMisconfig == Constructed /\ [][NextMisconfig]_vars

\* C12: a misconfiguration is rejected when it is made and never reaches the
\* callback: whenever Process has run over frames, frames_per_pulse_ is not 0
\* and no mapping holds an empty velocity sequence.
C12_MisconfigurationNeverReachesProcess ==
    (last_call.op = "GenProcess" /\ last_call.num_frames > 0
       /\ gen.sample_player # NULL) =>
        /\ gen.frames_per_pulse > 0
        /\ \A i \in 1 .. Len(gen.sample_mappings) :
              Len(gen.sample_mappings[i].velocity_pattern) > 0

-----------------------------------------------------------------------------
(* The pulse's steps and the change monitor *)

\* PatternGeneratorWrapper::SetPatternX and SetPatternY
SetPatternX(d, x) == [d EXCEPT !.x = x]
SetPatternY(d, y) == [d EXCEPT !.y = y]

DoSetPatternX(x) ==
    /\ grids' = SetPatternX(grids, x)
    /\ last_call' = Call("SetPatternX", 0, 0, 0, 0, FALSE)
    /\ out' = NoOutput
    /\ UNCHANGED <<player, gen, hist, threads>>

DoSetPatternY(y) ==
    /\ grids' = SetPatternY(grids, y)
    /\ last_call' = Call("SetPatternY", 0, 0, 0, 0, FALSE)
    /\ out' = NoOutput
    /\ UNCHANGED <<player, gen, hist, threads>>

\* Cap on the frames processed in one behaviour with the monitor watched.
MaxMonitorFrames == 3

\* One mapping on part 1, with two steps or with three.
MonitorAssignments ==
    {[mappings |-> <<Mapping(60, 1, <<1, 0>>, 0)>>, steps |-> 2],
     [mappings |-> <<Mapping(60, 1, <<1, 0, 0>>, 2)>>, steps |-> 3]}
MonitorCoordinates == {0, 128}
\* The provider's state on a pulse: nothing, or part 1.
MonitorBits == {0, 2}

NextMonitor ==
    \/ \E seed \in ClockSeeds : DoGenInit(48, 120, seed)
    \/ \E a \in MonitorAssignments : DoAssign(a.mappings, a.steps)
    \/ \E e \in BOOLEAN : DoSetLfoEnabled(e)
    \/ \E x \in MonitorCoordinates : DoSetPatternX(x)
    \/ \E y \in MonitorCoordinates : DoSetPatternY(y)
    \/ \E n \in 1 .. MaxBlock :
         \E bits \in [1 .. n -> MonitorBits] : DoGenProcess(n, bits, MaxMonitorFrames)

SpecMonitor == Constructed /\ [][NextMonitor]_vars

\* The steps of one pulse, in order; the LFO update is there when the LFO is
\* enabled and there is a mapping to update.
StepsOfPulse ==
    (IF gen.lfo_enabled /\ gen.sample_mappings # <<>> THEN <<"lfo">> ELSE <<>>)
        \o <<"detect", "tick", "dispatch", "increment">>

\* C13: within each pulse the steps are LFO update, change detection,
\* provider tick, dispatch, pulse-counter increment, each once and in that
\* order, and the pulses of one Process call follow one another whole: the
\* steps of the call are the steps of one pulse, repeated.
C13_PulseStepsInOrder ==
    (last_call.op = "GenProcess" /\ gen.sample_player # NULL) =>
        /\ Len(hist.call_log) % Len(StepsOfPulse) = 0
        /\ \A j \in 1 .. Len(hist.call_log) :
              hist.call_log[j] = StepsOfPulse[((j - 1) % Len(StepsOfPulse)) + 1]

\* The parts that have a mapping.
MappedParts ==
    {i \in Parts : \E j \in 1 .. Len(gen.sample_mappings) :
                      gen.sample_mappings[j].drum_part = i}

\* The bitmasks of the provider's current x, y and densities.
CurrentBits == ComputePatternBits(gen, grids, grids.x, grids.y)

\* C14: the change monitor runs on every pulse, LFO or not: after a Process
\* call in which a pulse elapsed, the published bitmask of every part that
\* has a mapping is the one computed for the current x and y, and if it had
\* to be republished in that call the flag is up.
C14_MonitorRunsOnEveryPulse ==
    (last_call.op = "GenProcess" /\ gen.sample_player # NULL
       /\ hist.call_log # <<>>) =>
        \A i \in MappedParts : gen.prev_pattern_bits[i] = CurrentBits[i]

\* C15: DetectPatternChange publishes exactly when the computed bitmask
\* differs from the published one for a part that has a mapping; otherwise
\* it changes nothing; and run again on the same inputs it changes nothing
\* and does not raise a flag that was cleared in between.
C15_PublishesIffMappedPartDiffers ==
    LET differs == \E i \in MappedParts : CurrentBits[i] # gen.prev_pattern_bits[i]
        after == DetectPatternChange(gen, grids)
        cleared == [after EXCEPT !.pattern_changed = FALSE]
    IN /\ differs =>
            after = [gen EXCEPT !.prev_pattern_bits = CurrentBits,
                                !.pending_pattern_bits = CurrentBits,
                                !.pending_pattern_x = grids.x,
                                !.pending_pattern_y = grids.y,
                                !.pattern_changed = TRUE]
       /\ ~differs => after = gen
       /\ DetectPatternChange(after, grids) = after
       /\ DetectPatternChange(cleared, grids) = cleared

\* A snapshot has been published by a pulse, and now the computed bitmasks
\* differ from it only for parts without a mapping.
C15_Witness ==
    /\ "detect" \in {hist.call_log[j] : j \in 1 .. Len(hist.call_log)}
    /\ gen.pattern_changed
    /\ gen.pending_pattern_bits = gen.prev_pattern_bits
    /\ MappedParts # {}
    /\ \A i \in MappedParts : CurrentBits[i] = gen.prev_pattern_bits[i]
    /\ \E i \in Parts \ MappedParts : CurrentBits[i] # gen.prev_pattern_bits[i]

(***************************************************************************)
(* The snapshot hand-off between the threads.  DetectPatternChange runs in *)
(* the audio thread, PrintPendingPattern in main()'s loop; here each of    *)
(* their reads and writes of the shared fields is a step of its own.  The  *)
(* fields are plain data and a volatile bool, so the steps may interleave  *)
(* freely; the reorderings that the data race allows besides come on top   *)
(* of the interleavings explored here.                                     *)
(***************************************************************************)
\* Whether a mapping is assigned to the part.
HasMapping(g, i) ==
    \E j \in 1 .. Len(g.sample_mappings) : g.sample_mappings[j].drum_part = i

\* What a rendering shows: x, y and the line of every part with a mapping.
Payload(g, x, y, bits) ==
    [x |-> x, y |-> y,
     bits |-> [i \in Parts |-> IF HasMapping(g, i) THEN bits[i] ELSE {}]]

\* DetectPatternChange up to `if (changed)`: the bitmasks are computed into
\* the local array and compared; when they differ the copy loop is entered.
WriterDetect ==
    /\ threads.audio.pc = "idle"
    /\ LET bits == ComputePatternBits(gen, grids, grids.x, grids.y)
       IN /\ \E i \in Parts : HasMapping(gen, i) /\ bits[i] # gen.prev_pattern_bits[i]
          /\ threads' = [threads EXCEPT
                 !.audio = [pc |-> "part", part |-> 0, x |-> grids.x,
                            y |-> grids.y, bits |-> bits, raised |-> FALSE],
                 !.published = @ \cup {Payload(gen, grids.x, grids.y, bits)}]
    /\ UNCHANGED <<player, out, last_call, gen, grids, hist>>

\* One turn of the copy loop: prev_pattern_bits_[i] and pending_pattern_bits_[i]
WriterWritePart ==
    /\ threads.audio.pc = "part"
    /\ LET i == threads.audio.part
       IN /\ gen' = [gen EXCEPT !.prev_pattern_bits[i] = threads.audio.bits[i],
                                !.pending_pattern_bits[i] = threads.audio.bits[i]]
          /\ threads' = [threads EXCEPT
                 !.audio.part = IF i + 1 < DRUM_PART_COUNT THEN i + 1 ELSE 0,
                 !.audio.pc = IF i + 1 < DRUM_PART_COUNT THEN "part" ELSE "x"]
    /\ UNCHANGED <<player, out, last_call, grids, hist>>

\* pending_pattern_x_ = x
WriterWriteX ==
    /\ threads.audio.pc = "x"
    /\ gen' = [gen EXCEPT !.pending_pattern_x = threads.audio.x]
    /\ threads' = [threads EXCEPT !.audio.pc = "y"]
    /\ UNCHANGED <<player, out, last_call, grids, hist>>

\* pending_pattern_y_ = y
WriterWriteY ==
    /\ threads.audio.pc = "y"
    /\ gen' = [gen EXCEPT !.pending_pattern_y = threads.audio.y]
    /\ threads' = [threads EXCEPT !.audio.pc = "flag"]
    /\ UNCHANGED <<player, out, last_call, grids, hist>>

\* pattern_changed_ = true, unless that store has taken effect already, and
\* DetectPatternChange returns
WriterRaiseFlag ==
    /\ threads.audio.pc = "flag"
    /\ gen' = IF threads.audio.raised THEN gen
              ELSE [gen EXCEPT !.pattern_changed = TRUE]
    /\ threads' = [threads EXCEPT !.audio = NewThreads.audio]
    /\ UNCHANGED <<player, out, last_call, grids, hist>>

\* if (!pattern_changed_) return;  a call that returns here leaves no trace
ReaderTestFlag ==
    /\ threads.main.pc = "flag"
    /\ gen.pattern_changed
    /\ threads' = [threads EXCEPT !.main.pc = "clear"]
    /\ UNCHANGED <<player, out, last_call, gen, grids, hist>>

\* An observer that, with the flag, resets what the monitor compares against.
ReaderClearFlagAndPrevious ==
    /\ threads.main.pc = "clear"
    /\ gen' = [gen EXCEPT !.pattern_changed = FALSE,
                          !.prev_pattern_bits = [i \in Parts |-> AllBits]]
    /\ threads' = [threads EXCEPT !.main.pc = "coordinates",
                                  !.main.unread = {"x", "y"}]
    /\ UNCHANGED <<player, out, last_call, grids, hist>>

\* pattern_changed_ = false
ReaderClearFlag ==
    /\ threads.main.pc = "clear"
    /\ gen' = [gen EXCEPT !.pattern_changed = FALSE]
    /\ threads' = [threads EXCEPT !.main.pc = "coordinates",
                                  !.main.unread = {"x", "y"}]
    /\ UNCHANGED <<player, out, last_call, grids, hist>>

\* The arguments of the fprintf, pending_pattern_x_ and pending_pattern_y_,
\* read in the order the build chose.
ReaderReadCoordinate(f) ==
    /\ threads.main.pc = "coordinates"
    /\ f \in threads.main.unread
    /\ threads' = [threads EXCEPT
           !.main.x = IF f = "x" THEN gen.pending_pattern_x ELSE @,
           !.main.y = IF f = "y" THEN gen.pending_pattern_y ELSE @,
           !.main.unread = @ \ {f},
           !.main.pc = IF threads.main.unread = {f} THEN "part" ELSE "coordinates"]
    /\ UNCHANGED <<player, out, last_call, gen, grids, hist>>

\* One turn of the printing loop: the line of the part, if it has a mapping;
\* after the last turn PrintPendingPattern returns.
ReaderReadPart ==
    /\ threads.main.pc = "part"
    /\ LET inst == threads.main.part
           bits == IF HasMapping(gen, inst)
                   THEN [threads.main.bits EXCEPT ![inst] = gen.pending_pattern_bits[inst]]
                   ELSE threads.main.bits
       IN threads' =
            IF inst + 1 < DRUM_PART_COUNT
            THEN [threads EXCEPT !.main.bits = bits, !.main.part = inst + 1]
            ELSE [threads EXCEPT
                     !.main = NewThreads.main,
                     !.rendered = {Payload(gen, threads.main.x, threads.main.y, bits)}]
    /\ UNCHANGED <<player, out, last_call, gen, grids, hist>>

ObserverAssignments ==
    {[mappings |-> <<Mapping(60, 0, <<1, 0>>, 0), Mapping(62, 1, <<1, 0>>, 0)>>,
      steps |-> 2]}
ObserverCoordinates == {0, 128}

\* main(): Init and AssignSamplesToParts before the threads run; then the
\* audio thread's pulses (SetPatternX, SetPatternY, DetectPatternChange) and
\* the main loop's PrintPendingPattern, step by step.
NextObserver ==
    \/ /\ threads = NewThreads
       /\ gen.sample_mappings = <<>>
       /\ \E seed \in ClockSeeds : DoGenInit(48, 120, seed)
    \/ /\ threads = NewThreads
       /\ gen.sample_rate > 0
       /\ gen.sample_mappings = <<>>
       /\ \E a \in ObserverAssignments : DoAssign(a.mappings, a.steps)
    \/ /\ threads.audio.pc = "idle"
       /\ gen.sample_mappings # <<>>
       /\ \E x \in ObserverCoordinates : DoSetPatternX(x)
    \/ /\ threads.audio.pc = "idle"
       /\ gen.sample_mappings # <<>>
       /\ \E y \in ObserverCoordinates : DoSetPatternY(y)
    \/ WriterDetect
    \/ WriterWritePart
    \/ WriterWriteX
    \/ WriterWriteY
    \/ WriterRaiseFlag
    \/ ReaderTestFlag
    \/ ReaderClearFlag
    \/ \E f \in {"x", "y"} : ReaderReadCoordinate(f)
    \/ ReaderReadPart

SpecObserver == Constructed /\ [][NextObserver]_vars

\* C16: under every interleaving of the two threads' reads and writes, the
\* snapshot the observer renders (x, y and the line of each part with a
\* mapping) is the whole payload of one publication, never a mixture of two.
C16_RenderedIsOnePublication ==
    threads.rendered \subseteq threads.published

(***************************************************************************)
(* A tempo change in the middle of everything: jitter on, LFO on, pulses   *)
(* under way.                                                              *)
(***************************************************************************)
\* Cap on the frames processed in one behaviour with tempo changes.
MaxTempoFrames == 4
TempoRates == {<<96, 120>>}
TempoTempos == {60}
TempoAmounts == {10}
TempoAssignments ==
    {[mappings |-> <<Mapping(60, 0, <<1, 0>>, 0)>>, steps |-> 2]}
TempoBits == {0, 1}

NextTempo ==
    \/ /\ hist.total_frames = 0
       /\ DoPlayerInit
    \/ /\ hist.total_frames = 0
       /\ \E r \in TempoRates, seed \in ClockSeeds : DoGenInit(r[1], r[2], seed)
    \/ /\ hist.total_frames = 0
       /\ \E a \in TempoAssignments : DoAssign(a.mappings, a.steps)
    \/ /\ hist.total_frames = 0
       /\ DoSetLfoEnabled(TRUE)
    \/ /\ hist.total_frames = 0
       /\ \E a \in TempoAmounts : DoSetHumanize(a)
    \/ \E b \in TempoTempos : DoSetTempo(b)
    \/ \E n \in 1 .. MaxBlock :
         \E bits \in [1 .. n -> TempoBits] : DoGenProcess(n, bits, MaxTempoFrames)

SpecTempo == Constructed /\ [][NextTempo]_vars

\* C17: SetTempo changes the tempo and frames_per_pulse_ and nothing else:
\* the frame accumulator, the pending-trigger table, the mappings with their
\* cursors and the snapshot stay as they were, and so do the provider and
\* the player.
C17_SetTempoChangesOnlyTempo ==
    [][last_call'.op = "SetTempo" =>
          /\ gen' = [gen EXCEPT !.bpm = gen'.bpm,
                                !.frames_per_pulse = gen'.frames_per_pulse]
          /\ gen'.frames_per_pulse = FramesPerPulse(gen.sample_rate, gen'.bpm)
          /\ grids' = grids
          /\ player' = player]_vars

\* SetTempo has just changed frames_per_pulse_ in the middle of a pulse, with
\* a trigger pending, a cursor advanced and a snapshot published.
C17_Witness ==
    /\ last_call.op = "SetTempo"
    /\ gen.frames_per_pulse # FramesPerPulse(gen.sample_rate, 120)
    /\ gen.frames_since_last_tick > 0
    /\ \E i \in PendingSlots : gen.pending_triggers[i].active
    /\ \E j \in 1 .. Len(gen.sample_mappings) : gen.sample_mappings[j].velocity_step > 0
    /\ gen.pattern_changed

(***************************************************************************)
(* The calls that have nothing to work on: null buffers, zero frames, a    *)
(* player without a bank, a wrapper without a player.                      *)
(***************************************************************************)
\* PatternGeneratorWrapper::Init(nullptr, sample_rate, bpm)
DoGenInitNoPlayer(sample_rate, bpm, seed) ==
    /\ gen' = [GenInit(gen, sample_rate, bpm, seed) EXCEPT !.sample_player = NULL]
    /\ grids' = GridsInit
    /\ hist' = [hist EXCEPT !.frames_fed = 0, !.ticks = 0, !.dispatch_passes = 0,
                            !.clock_touched = FALSE, !.setup = "init",
                            !.jitter = {}]
    /\ last_call' = Call("GenInit", 0, 0, 0, 0, FALSE)
    /\ out' = NoOutput
    /\ UNCHANGED <<player, threads>>

\* Caps on the Trigger calls from outside and on the wrapper's frames.
MaxNoOpTriggers == 1
MaxNoOpFrames == 2
NoOpNotes == {62}
NoOpAssignments ==
    {[mappings |-> <<Mapping(60, 0, <<1, 0>>, 0)>>, steps |-> 2]}
NoOpAmounts == {10}
NoOpBits == {1}

NextNoOp ==
    \/ /\ player.sample_bank = NULL
       /\ DoPlayerInit
    \/ \E n \in NoOpNotes : DoTrigger(n, 10, 0, MaxNoOpTriggers)
    \/ \E b \in CallerBuffers, f \in 0 .. MaxFrames : DoProcess(b, f)
    \/ \E lr \in StereoBuffers, f \in 0 .. MaxFrames :
          DoProcessStereo(lr[1], lr[2], f)
    \/ /\ hist.total_frames = 0
       /\ \E seed \in ClockSeeds : DoGenInit(48, 120, seed)
    \/ \E seed \in ClockSeeds : DoGenInitNoPlayer(48, 120, seed)
    \/ /\ hist.total_frames = 0
       /\ \E a \in NoOpAssignments : DoAssign(a.mappings, a.steps)
    \/ /\ hist.total_frames = 0
       /\ \E a \in NoOpAmounts : DoSetHumanize(a)
    \/ \E n \in 0 .. MaxBlock :
         \E bits \in [1 .. n -> NoOpBits] : DoGenProcess(n, bits, MaxNoOpFrames)

SpecNoOp == Constructed /\ [][NextNoOp]_vars

\* C18: Process with a null buffer or zero frames, ProcessStereo with either
\* buffer null or zero frames, Trigger on a player without a sample bank and
\* the wrapper's Process without a sample player change nothing: no voice,
\* cursor, counter, accumulator, pending trigger, nor the caller's buffers.
C18_NothingToWorkOnIsNoOp ==
    [][(\/ /\ last_call'.op \in {"Process", "ProcessStereo"}
           /\ last_call'.null_buffer \/ last_call'.num_frames = 0
        \/ /\ last_call'.op = "Trigger"
           /\ player.sample_bank = NULL
        \/ /\ last_call'.op = "GenProcess"
           /\ gen.sample_player = NULL)
       => /\ player' = player
          /\ gen' = gen
          /\ grids' = grids
          /\ hist' = hist
          /\ last_call'.op = "Process" =>
                \/ out'.mono.null
                \/ out'.mono = Buffer(StaleSample)
          /\ last_call'.op = "ProcessStereo" =>
                /\ out'.left.null \/ out'.left = Buffer(StaleSample)
                /\ out'.right.null \/ out'.right = Buffer(StaleSample)]_vars

\* The wrapper's Process has just been called with frames and without a
\* sample player, while a trigger is pending and a voice is playing.
C18_Witness ==
    /\ last_call.op = "GenProcess"
    /\ last_call.num_frames > 0
    /\ gen.sample_player = NULL
    /\ gen.frames_per_pulse > 0
    /\ \E i \in PendingSlots : gen.pending_triggers[i].active
    /\ \E i \in 0 .. (kMaxVoices - 1) : player.voice_pool[i].active

(***************************************************************************)
(* AssignSamplesToParts from its arguments: the note list, the number of   *)
(* parts asked for and the pattern length asked for.                       *)
(***************************************************************************)
\* Longest note list and largest rand() value handed to the assignment.
MaxNotes == 3
MaxRand == 2
\* Cap on the frames processed after an assignment.
MaxAssignFrames == 3

\* Note lists with distinct notes, the empty one among them.
AssignNoteLists == {<<>>, <<60>>, <<60, 62>>, <<62, 60, 64>>}
AssignParts == {0, 1, 2, 4}
\* Pattern lengths asked for: none, two, the most a pattern may have, more.
AssignSteps == {0, 2, 32, 33}
AssignDraws ==
    [rands : [1 .. (MaxNotes - 1) -> {0, MaxRand}],
     parts : {[i \in 1 .. MaxNotes |-> 0], [i \in 1 .. MaxNotes |-> i + 3]},
     fill : {1},
     phase : {0}]

\* AssignSamplesToParts(midi_notes, num_parts, num_velocity_steps).  With an
\* empty list `shuffled.size() - 1` wraps to the largest size_t and the
\* shuffle loop is entered: rand() % 0 and shuffled[i] outside an empty
\* vector are undefined, so the call either traps after clear() and the
\* clamp of num_steps_, or returns having built nothing.
DoAssignNotes(midi_notes, num_parts, num_velocity_steps, draws) ==
    /\ \E returned \in (IF midi_notes = <<>> THEN BOOLEAN ELSE {TRUE}) :
         LET mappings == IF midi_notes = <<>> THEN <<>>
                         ELSE BuildMappings(midi_notes, num_parts,
                                            num_velocity_steps, draws)
         IN /\ gen' = AssignSamplesToParts(gen, mappings, num_velocity_steps)
            /\ hist' = [hist EXCEPT
                   !.part_pulses = [i \in Parts |-> 0],
                   !.last_velocity = [i \in 1 .. Len(mappings) |-> 0],
                   !.assigned = [midi_notes |-> midi_notes,
                                 num_parts |-> num_parts,
                                 num_velocity_steps |-> num_velocity_steps,
                                 returned |-> returned]]
    /\ last_call' = Call("AssignSamplesToParts", 0, 0, 0, 0, FALSE)
    /\ out' = NoOutput
    /\ UNCHANGED <<player, grids, threads>>

AssignBits == {0, 7}

\* The calls go on for as long as the assignment returned; Process is left
\* out while a mapping holds an empty velocity sequence (reading it is the
\* undefined behaviour of the misconfigured engine).
NextAssign ==
    \/ /\ hist.assigned.returned
       /\ hist.total_frames = 0
       /\ \E seed \in ClockSeeds : DoGenInit(48, 120, seed)
    \/ /\ hist.assigned.returned
       /\ hist.total_frames = 0
       /\ \E notes \in AssignNoteLists, n \in AssignParts, steps \in AssignSteps,
             draws \in AssignDraws : DoAssignNotes(notes, n, steps, draws)
    \/ /\ hist.assigned.returned
       /\ \A j \in 1 .. Len(gen.sample_mappings) :
             gen.sample_mappings[j].velocity_pattern # <<>>
       /\ \E n \in 1 .. MaxBlock :
            \E bits \in [1 .. n -> AssignBits] : DoGenProcess(n, bits, MaxAssignFrames)

SpecAssign == Constructed /\ [][NextAssign]_vars

\* C21: after AssignSamplesToParts with any requested pattern length every
\* mapping's velocity sequence has between 1 and 32 entries, and in every
\* reachable state its cursor is less than that length.
C21_VelocitySequenceWithinBounds ==
    \A j \in 1 .. Len(gen.sample_mappings) :
       /\ Len(gen.sample_mappings[j].velocity_pattern) \in 1 .. 32
       /\ gen.sample_mappings[j].velocity_step
             < Len(gen.sample_mappings[j].velocity_pattern)

\* C22: AssignSamplesToParts(notes, num_parts, steps), for every list of
\* distinct notes, the empty list too, returns with exactly
\* min(|notes|, num_parts) mappings, whose notes are distinct elements of
\* notes, each on one of the three drum parts with cursor 0.
C22_AssignSelectsDistinctNotes ==
    last_call.op = "AssignSamplesToParts" =>
        LET notes == hist.assigned.midi_notes
            m == gen.sample_mappings
        IN /\ hist.assigned.returned
           /\ Len(m) = Min(Len(notes), hist.assigned.num_parts)
           /\ \A j \in 1 .. Len(m) :
                 /\ \E k \in 1 .. Len(notes) : m[j].midi_note = notes[k]
                 /\ m[j].drum_part \in Parts
                 /\ m[j].velocity_step = 0
           /\ \A j, k \in 1 .. Len(m) : j # k => m[j].midi_note # m[k].midi_note

(***************************************************************************)
(* Patterns shorter than the provider's: the step loops at num_steps_.     *)
(***************************************************************************)
\* Cap on the frames processed in one behaviour with a short pattern.
MaxLoopFrames == 8
\* Pattern lengths of one and two steps, and the provider's own.
LoopAssignments ==
    {[mappings |-> <<Mapping(60, 0, <<1>>, 0)>>, steps |-> 1],
     [mappings |-> <<Mapping(60, 0, <<1, 0>>, 0)>>, steps |-> 2],
     [mappings |-> <<Mapping(60, 0, [k \in 1 .. 32 |-> k % 2], 0)>>, steps |-> 32]}
LoopBits == {0, 1}

NextLoop ==
    \/ /\ hist.total_frames = 0
       /\ \E seed \in ClockSeeds : DoGenInit(48, 120, seed)
    \/ \E a \in LoopAssignments : DoAssign(a.mappings, a.steps)
    \/ \E n \in 1 .. MaxBlock :
         \E bits \in [1 .. n -> LoopBits] : DoGenProcess(n, bits, MaxLoopFrames)

SpecLoop == Constructed /\ [][NextLoop]_vars

\* C23: with a pattern length num_steps_ below the provider's step count,
\* the provider's step is below num_steps_ at every read of the trigger
\* bitmask and at the end of every pulse.
C23_StepBelowPatternLength ==
    (/\ last_call.op = "GenProcess"
     /\ hist.call_log # <<>>
     /\ gen.num_steps < kStepsPerPattern)
    => /\ \A step \in hist.read_steps : step < gen.num_steps
       /\ grids.step < gen.num_steps

\* The sixth pulse since Init with a two-step pattern: the provider went on
\* to its step 2 and the wrapper set it back to 0.
C23_Witness ==
    /\ last_call.op = "GenProcess"
    /\ hist.call_log # <<>>
    /\ gen.num_steps = 2
    /\ hist.ticks = 2 * kPulsesPerStep
    /\ 0 \in hist.read_steps
    /\ grids.step = 0
    /\ grids.pulse = 0

(***************************************************************************)
(* The LFO's drift of the coordinates.                                     *)
(***************************************************************************)
\* Cap on the frames processed in one behaviour with drifting coordinates.
MaxLfoFrames == 3
\* Two mappings whose phases are 0 and 5 eighths of a turn, and one alone.
LfoAssignments ==
    {[mappings |-> <<Mapping(60, 0, <<1, 0>>, 0), Mapping(62, 1, <<1, 0>>, 5)>>,
      steps |-> 2],
     [mappings |-> <<Mapping(60, 1, <<1, 0>>, 2)>>, steps |-> 2]}
LfoCoordinates == {0}
LfoBits == {0, 1}

NextLfo ==
    \/ /\ hist.total_frames = 0
       /\ \E seed \in ClockSeeds : DoGenInit(48, 120, seed)
    \/ /\ hist.total_frames = 0
       /\ \E a \in LfoAssignments : DoAssign(a.mappings, a.steps)
    \/ \E enabled \in BOOLEAN : DoSetLfoEnabled(enabled)
    \/ \E x \in LfoCoordinates : DoSetPatternX(x)
    \/ \E y \in LfoCoordinates : DoSetPatternY(y)
    \/ \E n \in 1 .. MaxBlock :
         \E bits \in [1 .. n -> LfoBits] : DoGenProcess(n, bits, MaxLfoFrames)

SpecLfo == Constructed /\ [][NextLfo]_vars

\* The coordinates and phases of the mappings.
LfoFields(mappings) ==
    [j \in 1 .. Len(mappings) |->
       <<mappings[j].x, mappings[j].y, mappings[j].lfo_x_phase, mappings[j].lfo_y_phase>>]

\* C24: with the LFO disabled, or without a mapping, a Process call leaves
\* the provider's x and y and every mapping's x, y and phases as they were;
\* with it enabled, after the pulses of a call the provider's x and y are
\* the truncated means of the mappings' x and y, which lie in 0 .. 255, and
\* in each pulse they were set before the provider's tick.
C24_LfoSetsMeanCoordinate ==
    /\ []((/\ last_call.op = "GenProcess"
           /\ hist.call_log # <<>>
           /\ gen.lfo_enabled
           /\ gen.sample_mappings # <<>>)
          => /\ ~hist.hung
             /\ \A j \in 1 .. Len(gen.sample_mappings) :
                   /\ gen.sample_mappings[j].x \in 0 .. 255
                   /\ gen.sample_mappings[j].y \in 0 .. 255
             /\ grids.x = SumX(gen.sample_mappings, 1) \div Len(gen.sample_mappings)
             /\ grids.y = SumY(gen.sample_mappings, 1) \div Len(gen.sample_mappings)
             /\ \A k \in 1 .. Len(hist.call_log) :
                   hist.call_log[k] = "tick" =>
                      k > 2 /\ hist.call_log[k - 2] = "lfo")
    /\ [][(/\ last_call'.op = "GenProcess"
           /\ ~gen.lfo_enabled \/ gen.sample_mappings = <<>>)
          => /\ grids'.x = grids.x
             /\ grids'.y = grids.y
             /\ LfoFields(gen'.sample_mappings) = LfoFields(gen.sample_mappings)]_vars

(***************************************************************************)
(* The stereo spread of the mappings.                                      *)
(***************************************************************************)
DoSetSpread(spread) ==
    /\ gen' = SetSpread(gen, spread)
    /\ last_call' = Call("SetSpread", 0, 0, 0, 0, FALSE)
    /\ out' = NoOutput
    /\ UNCHANGED <<player, grids, hist, threads>>

\* Cap on the frames processed in one behaviour with spread mappings.
MaxSpreadFrames == 2
\* Lists of none to four mappings.
SpreadAssignments ==
    {[mappings |-> [i \in 1 .. n |-> Mapping(59 + i, i % DRUM_PART_COUNT, <<1, 0>>, 0)],
      steps |-> 2] : n \in 0 .. 4}
\* Spreads 0, 0.3, 0.9 and -0.3: the pans they give are whole thousandths.
SpreadAmounts == {0, 300, 900, -300}
SpreadBits == {0, 7}

NextSpread ==
    \/ /\ hist.total_frames = 0
       /\ \E seed \in ClockSeeds : DoGenInit(48, 120, seed)
    \/ \E a \in SpreadAssignments : DoAssign(a.mappings, a.steps)
    \/ \E spread \in SpreadAmounts : DoSetSpread(spread)
    \/ \E n \in 1 .. MaxBlock :
         \E bits \in [1 .. n -> SpreadBits] : DoGenProcess(n, bits, MaxSpreadFrames)

SpecSpread == Constructed /\ [][NextSpread]_vars

\* C25: SetSpread(S) over n mappings sets the pan of mapping i (from 0) to
\* -S + 2 * S * i / (n - 1) for n > 1, so that four mappings get -S, -S/3,
\* S/3, S, and to 0 for n = 1 whatever S; it changes nothing else of a
\* mapping, and with n = 0 it changes no mapping.
C25_SpreadPans ==
    [][last_call'.op = "SetSpread" =>
          LET n == Len(gen.sample_mappings)
              S == gen'.spread
              after == gen'.sample_mappings
          IN /\ Len(after) = n
             /\ \A i \in 1 .. n :
                   /\ after[i] = [gen.sample_mappings[i] EXCEPT !.pan = after[i].pan]
                   /\ n = 1 => after[i].pan = 0
                   /\ n > 1 => (n - 1) * after[i].pan = 2 * S * (i - 1) - (n - 1) * S
             /\ n = 4 => /\ after[1].pan = -S
                         /\ 3 * after[2].pan = -S
                         /\ 3 * after[3].pan = S
                         /\ after[4].pan = S]_vars

\* SetSpread(0.3) has just spread four mappings, the cursors of which had
\* moved: pans -0.3, -0.1, 0.1, 0.3.
C25_Witness ==
    /\ last_call.op = "SetSpread"
    /\ gen.spread = 300
    /\ Len(gen.sample_mappings) = 4
    /\ [i \in 1 .. 4 |-> gen.sample_mappings[i].pan] = <<-300, -100, 100, 300>>
    /\ \E i \in 1 .. 4 : gen.sample_mappings[i].velocity_step > 0

\* C26: from Init with humanize off and a fixed tempo, for every sample rate
\* and BPM, also those for which sample_rate / (bpm * 24 / 60) is not an
\* integer, the number of pulse events after N frames is
\* floor(N * bpm * 24 / (60 * sample_rate)).
C26_PulsesFollowExactTempo ==
    FromInitHumanizeOff =>
        hist.ticks = (hist.frames_fed * gen.bpm * 2) \div (5 * gen.sample_rate)

\* C27: after any sequence of Init, SetTempo and SetHumanize calls,
\* humanize_max_frames_ is floor(amount * 1.5 * frames_per_pulse_) for the
\* current humanize amount and the current frames_per_pulse_.
C27_JitterFollowsTempo ==
    gen.humanize_max_frames = MaxJitterFrames(gen.humanize_amount, gen.frames_per_pulse)

(***************************************************************************)
(* The jitter window: Init, one SetHumanize, then the audio callback.      *)
(***************************************************************************)
\* Cap on the frames processed in one behaviour with the jitter window.
MaxWindowFrames == 8
\* sample_rate and bpm pairs: frames_per_pulse 2 and 4
WindowRates == {<<96, 120>>, <<96, 60>>}
WindowSeeds == {U32(0, 1), U32(0, 3), U32(0, 6), U32(0, 1000)}
WindowAssignments ==
    {[mappings |-> <<Mapping(60, 0, <<1, 0>>, 0)>>, steps |-> 2]}
\* Humanize amounts 0.5 and 1.0: humanize_max_frames_ 1 and 3 at 2 frames
\* per pulse, 3 and 6 at 4.
WindowAmounts == {5, 10}
WindowBits == {0, 1}

NextWindow ==
    \/ /\ hist.total_frames = 0
       /\ DoPlayerInit
    \/ /\ hist.total_frames = 0
       /\ \E r \in WindowRates, seed \in WindowSeeds : DoGenInit(r[1], r[2], seed)
    \/ /\ hist.total_frames = 0
       /\ \E a \in WindowAssignments : DoAssign(a.mappings, a.steps)
    \/ /\ hist.total_frames = 0
       /\ \E a \in WindowAmounts : DoSetHumanize(a)
    \/ \E n \in 1 .. MaxBlock :
         \E bits \in [1 .. n -> WindowBits] : DoGenProcess(n, bits, MaxWindowFrames)

SpecWindow == Constructed /\ [][NextWindow]_vars

\* C28: after Init followed by one SetHumanize with humanize_max_frames_ =
\* M > 0 and no tempo change, every trigger reaches SamplePlayer::Trigger at
\* a frame in [g - M, g + M], g being the frame at which its pulse would
\* have dispatched it with humanize off (pulse k at frame k times
\* frames_per_pulse_).
C28_JitterWindowCentred ==
    hist.setup = "humanized" =>
        \A offset \in hist.jitter :
            /\ -gen.humanize_max_frames <= offset
            /\ offset <= gen.humanize_max_frames

\* C29: PrintPendingPattern changes nothing of the engine but the changed
\* flag: the pending bitmasks and coordinate, the previous bitmasks, the
\* mappings, the clock and the pending-trigger table are after each of its
\* steps what they were before, and it clears the flag only when it was set.
C29_ObserverClearsFlagOnly ==
    /\ [](threads.main.pc = "clear" => gen.pattern_changed)
    /\ [][threads'.main # threads.main =>
             /\ gen' = [gen EXCEPT !.pattern_changed = gen'.pattern_changed]
             /\ gen'.pattern_changed # gen.pattern_changed =>
                   /\ threads.main.pc = "clear"
                   /\ gen.pattern_changed
                   /\ ~gen'.pattern_changed
             /\ grids' = grids
             /\ player' = player
             /\ hist' = hist]_vars

\* The observer has rendered one snapshot and has cleared the flag for the
\* next, while the monitor is in the middle of publishing a third.
C29_Witness ==
    /\ threads.rendered # {}
    /\ threads.main.pc = "coordinates"
    /\ ~gen.pattern_changed
    /\ threads.audio.pc = "part"
    /\ \E i \in Parts : gen.pending_pattern_bits[i] # {}

\* C30: under every interleaving of Trigger, Process and ProcessStereo
\* calls, voices that finish inside a Process call and further triggers
\* after it included, GetActiveVoiceCount() never exceeds kMaxVoices.
C30_CountWithinPoolUnderMixing ==
    last_call.op \in {"Trigger", "Process", "ProcessStereo"} =>
        player.active_voice_count <= kMaxVoices

-----------------------------------------------------------------------------
(* The life of a voice *)

\* The frames a voice at position p of a sample of length L has left for a
\* call of n frames: min(n, L - p).
FramesOwed(voice, n) ==
    IF n < voice.sample_length - voice.position
    THEN n ELSE voice.sample_length - voice.position

\* The sum over the slots from s on of what each active voice owes to frame
\* i (from 1) of a call of n frames, weighted by the slot's weight.
RECURSIVE OwedMix(_, _, _, _, _)
OwedMix(pool, weight, i, n, s) ==
    IF s = kMaxVoices THEN 0
    ELSE (IF pool[s].active /\ i <= FramesOwed(pool[s], n)
          THEN pool[s].sample_data[pool[s].position + i] * pool[s].gain * weight[s]
          ELSE 0)
         + OwedMix(pool, weight, i, n, s + 1)

\* C31: a voice on a sample of length L contributes min(frames, L - position)
\* samples to each Process call, the samples from its position on, and its
\* position advances by as many, so that unless stolen it contributes L in
\* all; it becomes inactive, its fields reset, in the call in which the
\* position reaches L, and is never rendered past its sample's end.
C31_VoiceRendersWholeSampleOnce ==
    /\ [](\A s \in ActiveSlots :
             /\ player.voice_pool[s].position < player.voice_pool[s].sample_length
             /\ Len(player.voice_pool[s].sample_data) = player.voice_pool[s].sample_length)
    /\ [][(/\ last_call'.op \in {"Process", "ProcessStereo"}
           /\ last_call'.num_frames >= 1
           /\ ~last_call'.null_buffer)
          => LET n == last_call'.num_frames
                 pool == player.voice_pool
                 one == [s \in Slots |-> 1]
             IN /\ \A s \in Slots :
                      LET v == pool[s]
                      IN player'.voice_pool[s] =
                           IF ~v.active THEN v
                           ELSE IF v.position + FramesOwed(v, n) = v.sample_length
                           THEN ResetVoice
                           ELSE [v EXCEPT !.position = @ + FramesOwed(v, n)]
                /\ \A i \in 1 .. n :
                      IF last_call'.op = "Process"
                      THEN out'.mono.data[i] = OwedMix(pool, one, i, n, 0)
                      ELSE /\ out'.left.data[i] =
                                OwedMix(pool, [s \in Slots |-> pool[s].pan_left], i, n, 0)
                           /\ out'.right.data[i] =
                                OwedMix(pool, [s \in Slots |-> pool[s].pan_right], i, n, 0)
         ]_vars

\* The only voice triggered, on the two-frame sample, has given its second
\* frame to a Process call of one frame and has become inactive in it.
C31_Witness ==
    /\ last_call.op = "Process"
    /\ last_call.num_frames = 1
    /\ ~last_call.null_buffer
    /\ player.total_triggers = 1
    /\ out.mono.data[1] \in {2, 20}
    /\ \A s \in Slots : player.voice_pool[s] = ResetVoice

\* C32: with a pattern length L below the provider's step count, and the
\* provider's TickClock advancing its step and setting its state for the
\* step it arrives at, every bitmask passed to ProcessTriggers was computed
\* for a step in [0, L), the steps ComputePatternBits displays.
C32_DispatchedBitsOfPatternSteps ==
    (/\ last_call.op = "GenProcess"
     /\ hist.call_log # <<>>
     /\ gen.num_steps < kStepsPerPattern)
    => \A step \in hist.state_steps : step < gen.num_steps

\* C33: SetHumanize is idempotent on the clock: a SetHumanize(a) that
\* follows a SetHumanize(a) leaves the frame accumulator, and with it the
\* frames of all later pulses, where the first call left it.
C33_SetHumanizeIdempotentOnClock ==
    [][(/\ last_call.op = "SetHumanize"
        /\ last_call'.op = "SetHumanize"
        /\ gen'.humanize_amount = gen.humanize_amount)
       => gen'.frames_since_last_tick = gen.frames_since_last_tick]_vars

\* C34: with frames_per_pulse_ >= 1, at the return of every Process call of
\* at least one frame the frame accumulator is below frames_per_pulse_,
\* whatever SetTempo and SetHumanize calls came between the Process calls.
C34_AccumulatorBelowPulseLength ==
    (/\ last_call.op = "GenProcess"
     /\ last_call.num_frames >= 1
     /\ gen.sample_player # NULL
     /\ ~hist.hung
     /\ gen.frames_per_pulse >= 1)
    => gen.frames_since_last_tick < gen.frames_per_pulse

-----------------------------------------------------------------------------
(* Buffer partitioning *)

\* A world without the history of its last Process call alone.
WithoutCallHistory(w) ==
    [w EXCEPT !.h.call_log = <<>>, !.h.read_steps = {}, !.h.state_steps = {}]

\* Process(a) followed by Process(b), the provider's states being bits[1]
\* to bits[a + b].
SplitProcess(w, a, b, bits) ==
    GenProcess(GenProcess(w, a, [i \in 1 .. a |-> bits[i]]),
               b, [i \in 1 .. b |-> bits[a + i]])

\* C35: from any state, Process(a) followed by Process(b) leaves the same
\* wrapper (accumulator, cursors, pending table, generator state), the same
\* provider, the same player and the same counts of pulses and of Trigger
\* calls as a single Process(a + b); as this holds for every a and b, the
\* Trigger calls are made at the same absolute frames.
C35_PartitionDoesNotMatter ==
    ~hist.hung =>
        \A a, b \in 0 .. MaxBlock :
            \A bits \in [1 .. (a + b) -> TempoBits] :
                LET here == World(gen, player, grids, hist)
                    split == SplitProcess(here, a, b, bits)
                    whole == GenProcess(here, a + b, bits)
                IN WithoutCallHistory(split) = WithoutCallHistory(whole)

\* A state from which the partition is put to the test: jitter on, the
\* accumulator one frame short of a pulse and a pending trigger due in two
\* frames, so that of two blocks of one frame the first has the pulse and
\* the second the Trigger call.
C35_Witness ==
    /\ last_call.op = "GenProcess"
    /\ gen.humanize_max_frames > 0
    /\ player.sample_bank # NULL
    /\ gen.frames_since_last_tick = gen.frames_per_pulse - 1
    /\ \E i \in PendingSlots : /\ gen.pending_triggers[i].active
                               /\ gen.pending_triggers[i].delay_frames = 2
    /\ LET here == World(gen, player, grids, hist)
           first == GenProcess(here, 1, <<0>>)
           second == GenProcess(first, 1, <<0>>)
       IN /\ first.h.ticks = hist.ticks + 1
          /\ first.h.fired = hist.fired
          /\ second.h.fired = hist.fired + 1
          /\ second.p.total_triggers = player.total_triggers + 1

(***************************************************************************)
(* The audio callback of main.cpp: the generator, then the player.         *)
(***************************************************************************)
\* jack_process_callback(nframes): the world and the two port buffers after
\* it; bits[i] is the provider's state for frame i, output_gain the factor
\* g_config.output_gain.
JackProcessCallback(w, out_left, out_right, nframes, bits, output_gain) ==
    IF out_left.null \/ out_right.null
    THEN [w |-> w, left |-> out_left, right |-> out_right]
    ELSE LET generated == GenProcess(w, nframes, bits)
             mixed == PlayerProcess(generated.p, out_left, nframes)
             gained == [i \in 1 .. MaxFrames |->
                          IF i <= nframes /\ output_gain # 1
                          THEN mixed.output.data[i] * output_gain
                          ELSE mixed.output.data[i]]
         IN [w |-> [generated EXCEPT !.p = mixed.player],
             left |-> [null |-> FALSE, data |-> gained],
             right |-> [null |-> FALSE,
                        data |-> [i \in 1 .. MaxFrames |->
                                    IF i <= nframes THEN gained[i]
                                    ELSE out_right.data[i]]]]

DoCallback(out_left, out_right, nframes, bits, output_gain, cap) ==
    /\ ~hist.hung
    /\ hist.total_frames + nframes <= cap
    /\ LET r == JackProcessCallback(World(gen, player, grids, hist),
                                    out_left, out_right, nframes, bits, output_gain)
       IN /\ gen' = r.w.g
          /\ player' = r.w.p
          /\ grids' = r.w.d
          /\ hist' = r.w.h
          /\ out' = [NoOutput EXCEPT !.left = r.left, !.right = r.right]
    /\ last_call' = Call("jack_process_callback", 0, 0, 0, nframes,
                         out_left.null \/ out_right.null)
    /\ UNCHANGED threads

\* Cap on the frames processed in one behaviour of callbacks.
MaxCallbackFrames == 6
\* Two frames per pulse: a pulse can fall on the second frame of a buffer.
CallbackRates == {<<96, 120>>}
CallbackAssignments ==
    {[mappings |-> <<Mapping(60, 0, <<1, 0>>, 0)>>, steps |-> 2],
     [mappings |-> <<Mapping(62, 0, <<1, 0>>, 0)>>, steps |-> 2]}
\* Humanize amounts 0.0 and 0.5 (humanize_max_frames_ 0 and 1)
CallbackAmounts == {0, 5}
CallbackBits == {0, 1}
CallbackGains == {1, 2}

NextCallback ==
    \/ /\ hist.total_frames = 0
       /\ DoPlayerInit
    \/ /\ hist.total_frames = 0
       /\ \E r \in CallbackRates, seed \in ClockSeeds : DoGenInit(r[1], r[2], seed)
    \/ /\ hist.total_frames = 0
       /\ \E a \in CallbackAssignments : DoAssign(a.mappings, a.steps)
    \/ /\ hist.total_frames = 0
       /\ \E a \in CallbackAmounts : DoSetHumanize(a)
    \/ \E lr \in StereoBuffers, n \in 1 .. MaxFrames, g \in CallbackGains :
         \E bits \in [1 .. n -> CallbackBits] :
            DoCallback(lr[1], lr[2], n, bits, g, MaxCallbackFrames)

SpecCallback == Constructed /\ [][NextCallback]_vars

\* The number of Trigger calls the player has accepted after the first k
\* frames of a Process(n) from the state as it is.
TriggersAfter(k, bits) ==
    GenProcess(World(gen, player, grids, hist), k,
               [i \in 1 .. k |-> bits[i]]).p.total_triggers

\* C36: in the audio callback a voice whose trigger fires at frame offset k
\* of the buffer, from a pulse or from a humanize delay that ran out, gives
\* its first sample to output frame k of that buffer: with no voice
\* sounding before, the output is silent before frame k and not at frame k.
C36_OnsetAtTriggerFrame ==
    (/\ gen.sample_player # NULL
     /\ ~hist.hung
     /\ \A s \in Slots : ~player.voice_pool[s].active)
    => \A n \in 1 .. MaxFrames :
         \A bits \in [1 .. n -> CallbackBits], k \in 0 .. (n - 1) :
            (/\ TriggersAfter(k, bits) = player.total_triggers
             /\ TriggersAfter(k + 1, bits) > player.total_triggers)
            => LET r == JackProcessCallback(World(gen, player, grids, hist),
                                            Buffer(StaleSample), Buffer(StaleSample),
                                            n, bits, 1)
               IN /\ \A i \in 1 .. k : r.left.data[i] = 0 /\ r.right.data[i] = 0
                  /\ r.left.data[k + 1] # 0
                  /\ r.right.data[k + 1] # 0

\* C37: a trigger queued with a stored delay d, 0 <= d <= 2 * M, is passed
\* to SamplePlayer::Trigger exactly d frames after the frame in which it was
\* queued, also when that frame is the last of a buffer, and its slot is
\* inactive once it has been played.
C37_PlayedAfterStoredDelay ==
    \A late \in hist.lateness : late = 0

(***************************************************************************)
(* The hand-off as a matter of progress: the monitor stops publishing, the *)
(* main loop goes on polling.  pattern_changed_ is a volatile bool and the *)
(* payload is plain data written and read by two threads without a lock,   *)
(* an atomic or a fence, so nothing holds the store of the flag behind the *)
(* stores of the payload that precede it in DetectPatternChange.           *)
(***************************************************************************)
\* pattern_changed_ = true taking effect ahead of stores of the payload that
\* come before it in the code.
WriterRaiseFlagAhead ==
    /\ threads.audio.pc \in {"part", "x", "y"}
    /\ ~threads.audio.raised
    /\ gen' = [gen EXCEPT !.pattern_changed = TRUE]
    /\ threads' = [threads EXCEPT !.audio.raised = TRUE]
    /\ UNCHANGED <<player, out, last_call, grids, hist>>

\* The steps of DetectPatternChange once it has found a change.
WriterSteps ==
    \/ WriterWritePart
    \/ WriterWriteX
    \/ WriterWriteY
    \/ WriterRaiseFlag

\* The steps of PrintPendingPattern, called again and again by main().
ReaderSteps ==
    \/ ReaderTestFlag
    \/ ReaderClearFlag
    \/ \E f \in {"x", "y"} : ReaderReadCoordinate(f)
    \/ ReaderReadPart

HandoffAssignments ==
    {[mappings |-> <<Mapping(60, 0, <<1, 0>>, 0), Mapping(62, 1, <<1, 0>>, 0)>>,
      steps |-> 2]}
HandoffCoordinates == {0, 128}

\* main(): Init and AssignSamplesToParts before the threads run; then the
\* audio thread's pulses (SetPatternX, DetectPatternChange) and the main
\* loop's PrintPendingPattern, step by step.
NextHandoff ==
    \/ /\ threads = NewThreads
       /\ gen.sample_mappings = <<>>
       /\ \E seed \in ClockSeeds : DoGenInit(48, 120, seed)
    \/ /\ threads = NewThreads
       /\ gen.sample_rate > 0
       /\ gen.sample_mappings = <<>>
       /\ \E a \in HandoffAssignments : DoAssign(a.mappings, a.steps)
    \/ /\ threads.audio.pc = "idle"
       /\ gen.sample_mappings # <<>>
       /\ \E x \in HandoffCoordinates : DoSetPatternX(x)
    \/ WriterDetect
    \/ WriterRaiseFlagAhead
    \/ WriterWritePart
    \/ WriterWriteX
    \/ WriterWriteY
    \/ WriterRaiseFlag
    \/ ReaderTestFlag
    \/ ReaderClearFlag
    \/ \E f \in {"x", "y"} : ReaderReadCoordinate(f)
    \/ ReaderReadPart

\* DetectPatternChange runs to its end once entered, and main()'s loop calls
\* PrintPendingPattern every 100 ms for as long as the program runs; nothing
\* obliges the audio thread to find another change.
SpecHandoff ==
    /\ Constructed
    /\ [][NextHandoff]_vars
    /\ WF_vars(WriterSteps)
    /\ WF_vars(ReaderSteps)

\* What the pending fields hold; with the monitor at rest, the payload of
\* its last publication.
PendingPayload ==
    Payload(gen, gen.pending_pattern_x, gen.pending_pattern_y,
            gen.pending_pattern_bits)

\* C38: no pattern change is lost across the threads.  When the monitor
\* stops publishing and the observer keeps polling, the observer ends with
\* the payload of the last publication rendered and the flag false; and a
\* publication complete while the observer stands between its test of the
\* flag and its clear is rendered by that call, unless the monitor publishes
\* again.
C38_LastPublicationRendered ==
    /\ <>[](threads.audio.pc = "idle") =>
          <>[](/\ ~gen.pattern_changed
               /\ threads.published # {} => threads.rendered = {PendingPayload})
    /\ (threads.main.pc = "clear" /\ threads.audio.pc = "idle")
          ~> (threads.rendered = {PendingPayload} \/ threads.audio.pc # "idle")

(***************************************************************************)
(* Process and ProcessStereo side by side.                                 *)
(***************************************************************************)
\* Position and active flag of every voice, the allocation cursor and the
\* active-voice count.
PoolState(p) ==
    [voices |-> [s \in Slots |-> [position |-> p.voice_pool[s].position,
                                  active |-> p.voice_pool[s].active]],
     next_voice_index |-> p.next_voice_index,
     active_voice_count |-> p.active_voice_count]

\* C39: from the same pool state and with the same num_frames, Process and
\* ProcessStereo (into buffers that are not null) leave every voice's
\* position and active flag, the allocation cursor and the active-voice
\* count identical.
C39_MonoAndStereoLeaveSamePool ==
    \A num_frames \in 0 .. MaxFrames :
        PoolState(PlayerProcess(player, Buffer(StaleSample), num_frames).player)
          = PoolState(PlayerProcessStereo(player, Buffer(StaleSample),
                                          Buffer(StaleSample), num_frames).player)

\* A pool with a voice that one frame finishes and a voice that one frame
\* leaves playing, and a count that the next call has to set anew.
C39_Witness ==
    /\ \E s \in Slots : /\ Rendered(player.voice_pool[s])
                        /\ player.voice_pool[s].sample_length
                             - player.voice_pool[s].position = 1
    /\ \E s \in Slots : /\ Rendered(player.voice_pool[s])
                        /\ player.voice_pool[s].sample_length
                             - player.voice_pool[s].position > 1
    /\ PlayerProcess(player, Buffer(StaleSample), 1).player.active_voice_count
         # player.active_voice_count
    /\ last_call.op \in {"Process", "ProcessStereo"}

(***************************************************************************)
(* The pending table as QueueHumanizedTrigger fills it.                    *)
(***************************************************************************)
\* C40: QueueHumanizedTrigger occupies the lowest-index inactive slot of
\* the pending table and leaves every other slot, the active ones above
\* all, as it is; with no inactive slot it leaves the whole table as it is;
\* and the number of active slots never exceeds kMaxPendingTriggers.
C40_LowestInactiveSlotTaken ==
    /\ Cardinality(ActivePending) <= kMaxPendingTriggers
    /\ \A midi_note \in BankNotes, velocity \in {1, 10} :
          LET after == QueueHumanizedTrigger(World(gen, player, grids, hist),
                                             midi_note, velocity, 0).g.pending_triggers
              taken == {i \in PendingSlots : after[i] # gen.pending_triggers[i]}
          IN /\ \A i \in ActivePending : after[i] = gen.pending_triggers[i]
             /\ ActivePending = PendingSlots => taken = {}
             /\ ActivePending # PendingSlots =>
                   \E i \in PendingSlots \ ActivePending :
                       /\ taken = {i}
                       /\ \A j \in PendingSlots : j < i => j \in ActivePending
                       /\ after[i].active
                       /\ after[i].midi_note = midi_note
                       /\ after[i].velocity = velocity

\* Triggers have been queued and played, and the table has a hole below an
\* active slot: slot 0 has fallen due while a slot above it still waits.
C40_Witness ==
    /\ hist.handed >= 2
    /\ hist.fired >= 1
    /\ \E i \in ActivePending : \E j \in PendingSlots \ ActivePending : j < i

====
